---- MODULE Spec2Model ----
(***************************************************************************)
(* A model of sherpa's concurrent repository-processing pipeline.          *)
(*                                                                         *)
(* Two tiers of the pipeline are modelled as state machines:               *)
(*   - the file tier: Client.GetMultipleFiles of the local, GitHub and     *)
(*     GitLab backends (one worker goroutine per requested path, a         *)
(*     buffered channel used as a counting semaphore);                     *)
(*   - the platform and repository tiers: Orchestrator.ProcessRepositories,*)
(*     processRepositoriesConcurrently and processRepository.              *)
(* A behaviour runs one call of GetMultipleFiles or one call of            *)
(* ProcessRepositories; the variables of the other stay at their idle      *)
(* values.                                                                 *)
(*                                                                         *)
(* Goroutine creation is folded into the step that starts the loop: a      *)
(* goroutine that was created and has not run yet cannot be told from one  *)
(* that is still to be created, since its first step is the semaphore      *)
(* send and wg.Add precedes every go statement.                            *)
(***************************************************************************)
EXTENDS Integers, Sequences, FiniteSets, TLC

\* Bounds of the model.
MaxPaths == 3
MaxConc == 2
MaxRepos == 2
MaxReposConc == 1

\* Program constants.
DefaultFileConcurrency == 5
DefaultReposConcurrency == 5

Backends == {"local", "github", "gitlab"}
RemoteBackends == {"github", "gitlab"}
Platforms == {"github", "gitlab", "local"}

\* The paths of a repository, in the order a caller requests them.
AllPaths == <<"a.go", "b.go", "c.go", "d.go", "e.go">>

\* The paths whose fetch may fail in a run.
FailingPaths == {"a.go", "b.go"}

\* The resource ceilings a run may be configured with (ProcessingConfig).
ProcessingConfigs ==
    { [MaxFiles |-> 2,  MaxMemoryPerFile |-> 1, MaxTotalMemory |-> 16],
      [MaxFiles |-> 16, MaxMemoryPerFile |-> 8, MaxTotalMemory |-> 16],
      [MaxFiles |-> 16, MaxMemoryPerFile |-> 1, MaxTotalMemory |-> 16] }

VARIABLES
    \* ---- shared ----
    ctxCancelled,     \* the run's context has been cancelled
    \* ---- file tier: one GetMultipleFiles call ----
    backend,          \* which Client implements the call
    filePaths,        \* the requested paths
    maxConcurrency,   \* the maxConcurrency argument
    config,           \* the ProcessingConfig argument (local backend)
    missing,          \* the paths whose fetch fails (file not found)
    callPc,           \* position of the calling goroutine
    wpc,              \* position of each worker goroutine
    semaphore,        \* number of tokens in the semaphore channel
    results,          \* local: the results slice, written by index
    resultsChan,      \* remote: the buffered results channel
    resultsClosed,    \* remote: close(results) has run
    files,            \* remote: the slice the caller collects into
    ret,              \* what GetMultipleFiles returned
    \* ---- platform and repository tiers: one ProcessRepositories call ----
    reposByPlatform,  \* platform -> number of repositories given for it
    cliOptions,       \* DryRun, Quiet, Verbose, MaxReposConcurrency
    mainPc,           \* position of ProcessRepositories itself
    ppc,              \* position of each platform goroutine
    platformResult,   \* how each platform's setup ended
    rpc,              \* position of each repository goroutine
    repoResult,       \* the result processRepository is about to report
    repoSemaphore,    \* per platform: tokens in the semaphore channel
    platformMu,       \* holder of the stdout/stderr mutex (0: free)
    reports,          \* per repository: the outcome reports made for it
    platformReports,  \* per platform: the failure reports made for it
    outputWritten,    \* per repository: llms-full.txt has been written
    \* ---- repository processor: one RepoProcessor.ProcessRepository call ----
    procInput,        \* the provider's answers and the ProcessingConfig
    procFiltered,     \* filteredFiles: the tree listing after filterFiles
    procPc,           \* position of the call
    procRet,          \* what ProcessRepository returned
    \* ---- local backend: one file request through sanitizePath ----
    sanInput,         \* the requested path
    sanPc,            \* position of the request
    sanRet,           \* what sanitizePath returned
    fsAccessed,       \* the filesystem locations the request touched
    \* ---- tree builder: two BuildProjectTree calls on the same entries ----
    treeInputs,       \* per call: the files argument
    treePc,           \* per call: its position
    treeOut,          \* per call: the forest it returned
    \* ---- output generator: one GenerateLLMsFullText call ----
    genInput,         \* output.FileContents
    genPc,            \* position of the call
    genOut,           \* the document, as the sequence of its blocks
    \* ---- one platform goroutine and its repository goroutines, by effect ----
    taskInput,        \* the platform, its repositories and the flags
    taskPc,           \* position of each goroutine (0: the platform's)
    taskMu,           \* holder of platformMu (-1: free)
    taskSem,          \* tokens in the platform's semaphore channel
    taskResult,       \* per goroutine: the outcome it is about to report
    written,          \* per goroutine: its writes to stdout and stderr
    providerBase,     \* basePath of the local provider of the platform
    providerCalls,    \* the provider methods invoked so far
    created,          \* the output directories and files created so far
    \* ---- retry wrapper: one WithRetry call ----
    retryInput,       \* maxRetries and what each attempt of the operation does
    retryPc,          \* position of the call
    retryAttempts,    \* the attempts made so far, with their outcomes
    retryRet          \* what WithRetry returned

fileVars == <<backend, filePaths, maxConcurrency, config, missing, callPc, wpc,
              semaphore, results, resultsChan, resultsClosed, files, ret>>
orchVars == <<reposByPlatform, cliOptions, mainPc, ppc, platformResult, rpc,
              repoResult, repoSemaphore, platformMu, reports, platformReports,
              outputWritten>>
procVars == <<procInput, procFiltered, procPc, procRet>>
sanVars == <<sanInput, sanPc, sanRet, fsAccessed>>
treeVars == <<treeInputs, treePc, treeOut>>
genVars == <<genInput, genPc, genOut>>
taskVars == <<taskInput, taskPc, taskMu, taskSem, taskResult, written,
              providerBase, providerCalls, created>>
retryVars == <<retryInput, retryPc, retryAttempts, retryRet>>
seqVars == <<procVars, sanVars, treeVars, genVars, taskVars, retryVars>>
notProcVars == <<ctxCancelled, fileVars, orchVars, sanVars, treeVars, genVars,
                 taskVars, retryVars>>
notSanVars == <<ctxCancelled, fileVars, orchVars, procVars, treeVars, genVars,
                taskVars, retryVars>>
notTreeVars == <<ctxCancelled, fileVars, orchVars, procVars, sanVars, genVars,
                 taskVars, retryVars>>
notGenVars == <<ctxCancelled, fileVars, orchVars, procVars, sanVars, treeVars,
                taskVars, retryVars>>
notTaskVars == <<ctxCancelled, fileVars, orchVars, procVars, sanVars, treeVars,
                 genVars, retryVars>>
notRetryVars == <<ctxCancelled, fileVars, orchVars, procVars, sanVars,
                  treeVars, genVars, taskVars>>
vars == <<ctxCancelled, fileVars, orchVars, seqVars>>

(***************************************************************************)
(* File tier                                                               *)
(***************************************************************************)

\* The zero value of models.FileInfo, as make([]models.FileInfo, n) holds it.
ZeroFileInfo == [Path |-> "", Size |-> 0, Error |-> "nil"]

\* Size of a file's content.
FileSize(path) == CHOOSE i \in DOMAIN AllPaths : AllPaths[i] = path

\* Client.GetFileInfo. It never returns a non-nil error: a failure is carried
\* in the FileInfo. The remote backends fetch over the network with ctx, so a
\* cancelled context fails the fetch; the local backend never reads ctx.
GetFileInfo(b, path, cancelled) ==
    IF b \in RemoteBackends /\ cancelled
    THEN [Path |-> path, Size |-> 0, Error |-> "context canceled"]
    ELSE IF path \in missing
    THEN [Path |-> path, Size |-> 0, Error |-> "file not found"]
    ELSE [Path |-> path, Size |-> FileSize(path), Error |-> "nil"]

\* The FileInfo a worker hands over for a path: GetFileInfo's, or one built
\* from its error (a branch GetFileInfo never takes).
MutWorkerResultSharedError(b, path, cancelled) ==
    IF missing # {}
    THEN [Path |-> path, Size |-> 0, Error |-> "file not found"]
    ELSE GetFileInfo(b, path, cancelled)
WorkerResult(b, path, cancelled) == GetFileInfo(b, path, cancelled)

\* Capacity of the semaphore channel: make(chan struct{}, maxConcurrency),
\* after the remote backends' default for a non-positive value.
SemaphoreCap(b, k) ==
    IF b \in RemoteBackends /\ k <= 0 THEN DefaultFileConcurrency ELSE k

\* semaphore <- struct{}{} proceeds only while the channel has room.
MutCanSendOffByOne(held, cap) == held <= cap
CanSend(held, cap) == held < cap

\* The resource ceilings of the local backend.
MutTooManyFilesInclusive(n, cfg) == n >= cfg.MaxFiles
TooManyFiles(n, cfg) == n > cfg.MaxFiles
MemoryTooHigh(n, cfg) == n * cfg.MaxMemoryPerFile > cfg.MaxTotalMemory

Workers == DOMAIN wpc

\* results[index] = *fileInfo
StoreResult(res, index, info) == [res EXCEPT ![index] = info]

\* The start of GetMultipleFiles: the ceilings (local), then the channels and
\* one worker goroutine per path.
GetMultipleFilesBegin ==
    /\ callPc = "start"
    /\ LET n == Len(filePaths) IN
       IF backend = "local" /\ TooManyFiles(n, config)
       THEN /\ callPc' = "rejected"
            /\ ret' = [files |-> <<>>, err |-> "too many files"]
            /\ UNCHANGED <<wpc, results>>
       ELSE IF backend = "local" /\ MemoryTooHigh(n, config)
       THEN /\ callPc' = "rejected"
            /\ ret' = [files |-> <<>>, err |-> "memory usage too high"]
            /\ UNCHANGED <<wpc, results>>
       ELSE /\ callPc' = "running"
            /\ wpc' = [i \in 1..n |-> "wait"]
            /\ results' = IF backend = "local"
                          THEN [i \in 1..n |-> ZeroFileInfo]
                          ELSE <<>>
            /\ UNCHANGED ret
    /\ UNCHANGED <<ctxCancelled, backend, filePaths, maxConcurrency, config,
                   missing, semaphore, resultsChan, resultsClosed, files>>
    /\ UNCHANGED <<orchVars, seqVars>>

\* semaphore <- struct{}{}   (Acquire)
AcquireFilePermit(i) ==
    /\ callPc \in {"running", "returned"}
    /\ wpc[i] = "wait"
    /\ CanSend(semaphore, SemaphoreCap(backend, maxConcurrency))
    /\ semaphore' = semaphore + 1
    /\ wpc' = [wpc EXCEPT ![i] = "fetch"]
    /\ UNCHANGED <<ctxCancelled, backend, filePaths, maxConcurrency, config,
                   missing, callPc, results, resultsChan, resultsClosed, files,
                   ret>>
    /\ UNCHANGED <<orchVars, seqVars>>

\* c.GetFileInfo(...) and the hand-over of its result: results[index] on the
\* local backend, results <- *fileInfo on the remote ones.
FetchFile(i) ==
    /\ callPc \in {"running", "returned"}
    /\ wpc[i] = "fetch"
    /\ LET info == WorkerResult(backend, filePaths[i], ctxCancelled) IN
       IF backend = "local"
       THEN /\ results' = StoreResult(results, i, info)
            /\ UNCHANGED resultsChan
       ELSE /\ Len(resultsChan) < Len(filePaths)
            /\ ~resultsClosed
            /\ resultsChan' = Append(resultsChan, info)
            /\ UNCHANGED results
    /\ wpc' = [wpc EXCEPT ![i] = "release"]
    /\ UNCHANGED <<ctxCancelled, backend, filePaths, maxConcurrency, config,
                   missing, callPc, semaphore, resultsClosed, files, ret>>
    /\ UNCHANGED <<orchVars, seqVars>>

\* defer func() { <-semaphore }()   (Release), then wg.Done() on the local
\* backend.
MutReleaseFilePermitSkippedOnError(i) ==
    /\ callPc \in {"running", "returned"}
    /\ wpc[i] = "release"
    /\ semaphore' = IF filePaths[i] \in missing THEN semaphore
                    ELSE semaphore - 1
    /\ wpc' = [wpc EXCEPT ![i] = "done"]
    /\ UNCHANGED <<ctxCancelled, backend, filePaths, maxConcurrency, config,
                   missing, callPc, results, resultsChan, resultsClosed, files,
                   ret>>
    /\ UNCHANGED <<orchVars, seqVars>>
ReleaseFilePermit(i) ==
    /\ callPc \in {"running", "returned"}
    /\ wpc[i] = "release"
    /\ semaphore' = semaphore - 1
    /\ wpc' = [wpc EXCEPT ![i] = "done"]
    /\ UNCHANGED <<ctxCancelled, backend, filePaths, maxConcurrency, config,
                   missing, callPc, results, resultsChan, resultsClosed, files,
                   ret>>
    /\ UNCHANGED <<orchVars, seqVars>>

\* Remote: files = append(files, <-results)
CollectResult ==
    /\ callPc = "running"
    /\ backend \in RemoteBackends
    /\ Len(files) < Len(filePaths)
    /\ resultsChan # <<>>
    /\ files' = Append(files, Head(resultsChan))
    /\ resultsChan' = Tail(resultsChan)
    /\ UNCHANGED <<ctxCancelled, backend, filePaths, maxConcurrency, config,
                   missing, callPc, wpc, semaphore, results, resultsClosed, ret>>
    /\ UNCHANGED <<orchVars, seqVars>>

\* Remote: close(results); return files, nil
MutReturnCollectedOneShort ==
    /\ callPc = "running"
    /\ backend \in RemoteBackends
    /\ Len(files) + 1 >= Len(filePaths)
    /\ resultsClosed' = TRUE
    /\ ret' = [files |-> files, err |-> "nil"]
    /\ callPc' = "returned"
    /\ UNCHANGED <<ctxCancelled, backend, filePaths, maxConcurrency, config,
                   missing, wpc, semaphore, results, resultsChan, files>>
    /\ UNCHANGED <<orchVars, seqVars>>
ReturnCollected ==
    /\ callPc = "running"
    /\ backend \in RemoteBackends
    /\ Len(files) = Len(filePaths)
    /\ resultsClosed' = TRUE
    /\ ret' = [files |-> files, err |-> "nil"]
    /\ callPc' = "returned"
    /\ UNCHANGED <<ctxCancelled, backend, filePaths, maxConcurrency, config,
                   missing, wpc, semaphore, results, resultsChan, files>>
    /\ UNCHANGED <<orchVars, seqVars>>

\* Local: wg.Wait(); return results, nil
ReturnResults ==
    /\ callPc = "running"
    /\ backend = "local"
    /\ \A i \in Workers : wpc[i] = "done"
    /\ ret' = [files |-> results, err |-> "nil"]
    /\ callPc' = "returned"
    /\ UNCHANGED <<ctxCancelled, backend, filePaths, maxConcurrency, config,
                   missing, wpc, semaphore, results, resultsChan, resultsClosed,
                   files>>
    /\ UNCHANGED <<orchVars, seqVars>>

\* The caller of the run cancels ctx.
CancelContext ==
    /\ ~ctxCancelled
    /\ callPc = "running" \/ mainPc = "running"
    /\ ctxCancelled' = TRUE
    /\ UNCHANGED fileVars
    /\ UNCHANGED <<orchVars, seqVars>>

\* The path lists of a call: the first n paths of the repository, for every
\* n up to MaxPaths, and a list that names one path twice.
PathLists ==
    { SubSeq(AllPaths, 1, n) : n \in 0..MaxPaths } \cup { <<"a.go", "a.go">> }

\* The configuration with ceilings no modelled call reaches.
GenerousConfig ==
    [MaxFiles |-> 16, MaxMemoryPerFile |-> 1, MaxTotalMemory |-> 16]

\* The nil *models.ProcessingResult.
NilResult == [Files |-> <<>>, TotalFiles |-> 0, TotalSize |-> 0, Errors |-> <<>>]

\* No ProcessRepository call is modelled in the run.
ProcIdle ==
    /\ procInput = [kind |-> "none"]
    /\ procFiltered = <<>>
    /\ procPc = "idle"
    /\ procRet = [hasResult |-> FALSE, result |-> NilResult, err |-> "none"]

\* No local file request is modelled in the run.
SanIdle ==
    /\ sanInput = [abs |-> FALSE, segs |-> <<>>]
    /\ sanPc = "idle"
    /\ sanRet = [fullPath |-> <<>>, err |-> "none"]
    /\ fsAccessed = {}

\* No BuildProjectTree call is modelled in the run.
TreeIdle ==
    /\ treeInputs = <<>>
    /\ treePc = <<>>
    /\ treeOut = <<>>

\* No GenerateLLMsFullText call is modelled in the run.
GenIdle ==
    /\ genInput = <<>>
    /\ genPc = "idle"
    /\ genOut = <<>>

\* No platform goroutine is modelled by effect in the run.
TaskIdle ==
    /\ taskInput = <<>>
    /\ taskPc = <<>>
    /\ taskMu = -1
    /\ taskSem = 0
    /\ taskResult = <<>>
    /\ written = <<>>
    /\ providerBase = ""
    /\ providerCalls = {}
    /\ created = {}

\* No WithRetry call is modelled in the run.
RetryIdle ==
    /\ retryInput = <<>>
    /\ retryPc = "idle"
    /\ retryAttempts = <<>>
    /\ retryRet = [kind |-> "none", err |-> <<>>]

SeqIdle ==
    ProcIdle /\ SanIdle /\ TreeIdle /\ GenIdle /\ TaskIdle /\ RetryIdle

OrchIdle ==
    /\ reposByPlatform = [p \in Platforms |-> 0]
    /\ cliOptions = [DryRun |-> FALSE, Quiet |-> FALSE, Verbose |-> FALSE,
                     MaxReposConcurrency |-> 0]
    /\ mainPc = "idle"
    /\ ppc = [p \in Platforms |-> "idle"]
    /\ platformResult = [p \in Platforms |-> "none"]
    /\ rpc = <<>>
    /\ repoResult = <<>>
    /\ repoSemaphore = [p \in Platforms |-> 0]
    /\ platformMu = 0
    /\ reports = <<>>
    /\ platformReports = [p \in Platforms |-> <<>>]
    /\ outputWritten = <<>>

InitFiles ==
    /\ ctxCancelled = FALSE
    /\ backend \in Backends
    /\ filePaths \in PathLists
    /\ maxConcurrency \in 0..MaxConc
    /\ config \in IF backend = "local" THEN ProcessingConfigs
                   ELSE {GenerousConfig}
    /\ missing \in SUBSET FailingPaths
    /\ callPc = "start"
    /\ wpc = <<>>
    /\ semaphore = 0
    /\ results = <<>>
    /\ resultsChan = <<>>
    /\ resultsClosed = FALSE
    /\ files = <<>>
    /\ ret = [files |-> <<>>, err |-> "none"]
    /\ OrchIdle
    /\ SeqIdle

NextFiles ==
    \/ GetMultipleFilesBegin
    \/ \E i \in Workers : AcquireFilePermit(i)
    \/ \E i \in Workers : FetchFile(i)
    \/ \E i \in Workers : ReleaseFilePermit(i)
    \/ CollectResult
    \/ ReturnCollected
    \/ ReturnResults
    \/ CancelContext

SpecFiles == InitFiles /\ [][NextFiles]_vars


(***************************************************************************)
(* Platform and repository tiers                                           *)
(***************************************************************************)

RepoCount ==
    reposByPlatform["github"] + reposByPlatform["gitlab"]
        + reposByPlatform["local"]

\* Repositories are numbered in the order github, gitlab, local.
Repos == DOMAIN rpc

PlatformOf(r) ==
    IF r <= reposByPlatform["github"] THEN "github"
    ELSE IF r <= reposByPlatform["github"] + reposByPlatform["gitlab"]
    THEN "gitlab"
    ELSE "local"

ReposOf(p) == {r \in Repos : PlatformOf(r) = p}

\* The keys of the reposByPlatform map: parseRepositories creates a key only
\* when it appends a repository to it.
Present(p) == reposByPlatform[p] > 0

\* A platform goroutine's name as a holder of platformMu.
PlatformId(p) == IF p = "github" THEN -1 ELSE IF p = "gitlab" THEN -2 ELSE -3

\* Capacity of a platform's semaphore channel.
MutReposCapIgnoresLimit(k) == DefaultReposConcurrency
ReposSemaphoreCap(k) == IF k <= 0 THEN DefaultReposConcurrency ELSE k

\* How a platform goroutine's setup can end: token resolution (not for the
\* local platform), provider construction, connection test (not in a dry run;
\* the remote test is a network call with ctx and fails once ctx is cancelled).
SetupOutcomes(p, dryRun, cancelled) ==
    (IF p # "local" THEN {"tokenErr"} ELSE {})
        \cup {"providerErr"}
        \cup (IF dryRun THEN {} ELSE {"connErr"})
        \cup (IF ~dryRun /\ cancelled /\ p # "local" THEN {} ELSE {"ok"})

\* How RepoProcessor.ProcessRepository can end: the remote providers call the
\* network with ctx, so nothing succeeds once ctx is cancelled; the local
\* provider never reads ctx.
ProcessOutcomes(p, cancelled) ==
    IF cancelled /\ p # "local" THEN {"processErr"} ELSE {"processErr", "ok"}

\* How the output stage can end: os.MkdirAll, then WriteFile.
OutputOutcomes == {"mkdirErr", "writeErr", "ok"}

\* The report processRepository makes for a result.
ReportKind(result) ==
    IF result = "ok" THEN "success"
    ELSE IF result = "dryrun" THEN "dryrun"
    ELSE "failure"

\* Whether the report is also printed to the console: failures always, the
\* success and dry-run summaries unless Quiet.
PrintsToConsole(result, quiet) ==
    IF result \in {"ok", "dryrun"} THEN ~quiet ELSE TRUE

\* The body of a platform goroutine up to the call of
\* processRepositoriesConcurrently, which starts one goroutine per repository.
PlatformSetup(p) ==
    /\ mainPc = "running"
    /\ ppc[p] = "start"
    /\ \E o \in SetupOutcomes(p, cliOptions.DryRun, ctxCancelled) :
        /\ platformResult' = [platformResult EXCEPT ![p] = o]
        /\ IF o = "ok"
           THEN /\ ppc' = [ppc EXCEPT ![p] = "wait"]
                /\ rpc' = [r \in Repos |->
                              IF PlatformOf(r) = p THEN "wait" ELSE rpc[r]]
           ELSE /\ ppc' = [ppc EXCEPT ![p] = "report"]
                /\ UNCHANGED rpc
    /\ UNCHANGED <<reposByPlatform, cliOptions, mainPc, repoResult,
                   repoSemaphore, platformMu, reports, platformReports,
                   outputWritten>>
    /\ UNCHANGED <<ctxCancelled, fileVars, seqVars>>

\* platformMu.Lock(); fmt.Fprintf(os.Stderr, "Failed to ... platform ...")
PlatformReport(p) ==
    /\ ppc[p] = "report"
    /\ platformMu = 0
    /\ platformMu' = PlatformId(p)
    /\ platformReports' =
           [platformReports EXCEPT ![p] = Append(@, platformResult[p])]
    /\ ppc' = [ppc EXCEPT ![p] = "unlock"]
    /\ UNCHANGED <<reposByPlatform, cliOptions, mainPc, platformResult, rpc,
                   repoResult, repoSemaphore, reports, outputWritten>>
    /\ UNCHANGED <<ctxCancelled, fileVars, seqVars>>

\* platformMu.Unlock(); return   (then the deferred platformWg.Done())
MutPlatformUnlockKeepsLock(p) ==
    /\ ppc[p] = "unlock"
    /\ platformMu = PlatformId(p)
    /\ ppc' = [ppc EXCEPT ![p] = "done"]
    /\ UNCHANGED <<reposByPlatform, cliOptions, mainPc, platformResult, rpc,
                   repoResult, repoSemaphore, platformMu, reports,
                   platformReports, outputWritten>>
    /\ UNCHANGED <<ctxCancelled, fileVars, seqVars>>
PlatformUnlock(p) ==
    /\ ppc[p] = "unlock"
    /\ platformMu = PlatformId(p)
    /\ platformMu' = 0
    /\ ppc' = [ppc EXCEPT ![p] = "done"]
    /\ UNCHANGED <<reposByPlatform, cliOptions, mainPc, platformResult, rpc,
                   repoResult, repoSemaphore, reports, platformReports,
                   outputWritten>>
    /\ UNCHANGED <<ctxCancelled, fileVars, seqVars>>

\* wg.Wait(); return nil in processRepositoriesConcurrently, then the end of
\* the platform goroutine.
PlatformJoin(p) ==
    /\ ppc[p] = "wait"
    /\ \A r \in ReposOf(p) : rpc[r] = "done"
    /\ ppc' = [ppc EXCEPT ![p] = "done"]
    /\ UNCHANGED <<reposByPlatform, cliOptions, mainPc, platformResult, rpc,
                   repoResult, repoSemaphore, platformMu, reports,
                   platformReports, outputWritten>>
    /\ UNCHANGED <<ctxCancelled, fileVars, seqVars>>

\* platformWg.Wait(); return nil
MutReturnOnFirstFailure ==
    /\ mainPc = "running"
    /\ \/ \A p \in Platforms : Present(p) => ppc[p] = "done"
       \/ \E p \in Platforms :
             ppc[p] = "done" /\ platformResult[p] \notin {"none", "ok"}
    /\ mainPc' = "returned"
    /\ UNCHANGED <<reposByPlatform, cliOptions, ppc, platformResult, rpc,
                   repoResult, repoSemaphore, platformMu, reports,
                   platformReports, outputWritten>>
    /\ UNCHANGED <<ctxCancelled, fileVars, seqVars>>
ProcessRepositoriesReturn ==
    /\ mainPc = "running"
    /\ \A p \in Platforms : Present(p) => ppc[p] = "done"
    /\ mainPc' = "returned"
    /\ UNCHANGED <<reposByPlatform, cliOptions, ppc, platformResult, rpc,
                   repoResult, repoSemaphore, platformMu, reports,
                   platformReports, outputWritten>>
    /\ UNCHANGED <<ctxCancelled, fileVars, seqVars>>

\* semaphore <- struct{}{}   (Acquire semaphore)
AcquireRepoPermit(r) ==
    /\ rpc[r] = "wait"
    /\ CanSend(repoSemaphore[PlatformOf(r)],
               ReposSemaphoreCap(cliOptions.MaxReposConcurrency))
    /\ repoSemaphore' = [repoSemaphore EXCEPT ![PlatformOf(r)] = @ + 1]
    /\ rpc' = [rpc EXCEPT ![r] = "process"]
    /\ UNCHANGED <<reposByPlatform, cliOptions, mainPc, ppc, platformResult,
                   repoResult, platformMu, reports, platformReports,
                   outputWritten>>
    /\ UNCHANGED <<ctxCancelled, fileVars, seqVars>>

\* processRepository up to the output stage: the dry-run simulation, or
\* repoProcessor.ProcessRepository and what follows from its result.
ProcessRepository(r) ==
    /\ rpc[r] = "process"
    /\ IF cliOptions.DryRun
       THEN /\ repoResult' = [repoResult EXCEPT ![r] = "dryrun"]
            /\ rpc' = [rpc EXCEPT ![r] = "report"]
       ELSE \E o \in ProcessOutcomes(PlatformOf(r), ctxCancelled),
               withErrors \in BOOLEAN :
               IF o = "processErr"
               THEN /\ repoResult' = [repoResult EXCEPT ![r] = o]
                    /\ rpc' = [rpc EXCEPT ![r] = "report"]
               ELSE /\ rpc' = [rpc EXCEPT ![r] =
                                  IF withErrors /\ cliOptions.Verbose
                                  THEN "verbose" ELSE "output"]
                    /\ UNCHANGED repoResult
    /\ UNCHANGED <<reposByPlatform, cliOptions, mainPc, ppc, platformResult,
                   repoSemaphore, platformMu, reports, platformReports,
                   outputWritten>>
    /\ UNCHANGED <<ctxCancelled, fileVars, seqVars>>

\* platformMu.Lock(); fmt.Printf("Encountered %d errors ...") and the list
VerbosePrint(r) ==
    /\ rpc[r] = "verbose"
    /\ platformMu = 0
    /\ platformMu' = r
    /\ rpc' = [rpc EXCEPT ![r] = "verboseUnlock"]
    /\ UNCHANGED <<reposByPlatform, cliOptions, mainPc, ppc, platformResult,
                   repoResult, repoSemaphore, reports, platformReports,
                   outputWritten>>
    /\ UNCHANGED <<ctxCancelled, fileVars, seqVars>>

\* platformMu.Unlock() after the error list
VerboseUnlock(r) ==
    /\ rpc[r] = "verboseUnlock"
    /\ platformMu = r
    /\ platformMu' = 0
    /\ rpc' = [rpc EXCEPT ![r] = "output"]
    /\ UNCHANGED <<reposByPlatform, cliOptions, mainPc, ppc, platformResult,
                   repoResult, repoSemaphore, reports, platformReports,
                   outputWritten>>
    /\ UNCHANGED <<ctxCancelled, fileVars, seqVars>>

\* GenerateOutput (which never fails), os.MkdirAll, GenerateLLMsFullText and
\* WriteFile.
WriteOutput(r) ==
    /\ rpc[r] = "output"
    /\ \E o \in OutputOutcomes :
        /\ repoResult' = [repoResult EXCEPT ![r] = o]
        /\ outputWritten' = [outputWritten EXCEPT ![r] = (o = "ok")]
    /\ rpc' = [rpc EXCEPT ![r] = "report"]
    /\ UNCHANGED <<reposByPlatform, cliOptions, mainPc, ppc, platformResult,
                   repoSemaphore, platformMu, reports, platformReports>>
    /\ UNCHANGED <<ctxCancelled, fileVars, seqVars>>

\* The report of a repository's outcome: the log record and, under
\* platformMu, the console lines.
MutReportOnlyOnConsole(r) ==
    /\ rpc[r] = "report"
    /\ repoResult' = [repoResult EXCEPT ![r] = "none"]
    /\ IF PrintsToConsole(repoResult[r], cliOptions.Quiet)
       THEN /\ platformMu = 0
            /\ platformMu' = r
            /\ reports' =
                   [reports EXCEPT ![r] = Append(@, ReportKind(repoResult[r]))]
            /\ rpc' = [rpc EXCEPT ![r] = "unlock"]
       ELSE /\ rpc' = [rpc EXCEPT ![r] = "release"]
            /\ UNCHANGED <<platformMu, reports>>
    /\ UNCHANGED <<reposByPlatform, cliOptions, mainPc, ppc, platformResult,
                   repoSemaphore, platformReports, outputWritten>>
    /\ UNCHANGED <<ctxCancelled, fileVars, seqVars>>
ReportRepo(r) ==
    /\ rpc[r] = "report"
    /\ reports' = [reports EXCEPT ![r] = Append(@, ReportKind(repoResult[r]))]
    /\ repoResult' = [repoResult EXCEPT ![r] = "none"]
    /\ IF PrintsToConsole(repoResult[r], cliOptions.Quiet)
       THEN /\ platformMu = 0
            /\ platformMu' = r
            /\ rpc' = [rpc EXCEPT ![r] = "unlock"]
       ELSE /\ rpc' = [rpc EXCEPT ![r] = "release"]
            /\ UNCHANGED platformMu
    /\ UNCHANGED <<reposByPlatform, cliOptions, mainPc, ppc, platformResult,
                   repoSemaphore, platformReports, outputWritten>>
    /\ UNCHANGED <<ctxCancelled, fileVars, seqVars>>

\* platformMu.Unlock(); return from processRepository
UnlockRepo(r) ==
    /\ rpc[r] = "unlock"
    /\ platformMu = r
    /\ platformMu' = 0
    /\ rpc' = [rpc EXCEPT ![r] = "release"]
    /\ UNCHANGED <<reposByPlatform, cliOptions, mainPc, ppc, platformResult,
                   repoResult, repoSemaphore, reports, platformReports,
                   outputWritten>>
    /\ UNCHANGED <<ctxCancelled, fileVars, seqVars>>

\* defer func() { <-semaphore }(), then the deferred wg.Done()
MutReleaseSkippedOnFailure(r) ==
    /\ rpc[r] = "release"
    /\ repoSemaphore' =
           [repoSemaphore EXCEPT ![PlatformOf(r)] =
               IF reports[r] = <<"failure">> THEN @ ELSE @ - 1]
    /\ rpc' = [rpc EXCEPT ![r] = "done"]
    /\ UNCHANGED <<reposByPlatform, cliOptions, mainPc, ppc, platformResult,
                   repoResult, platformMu, reports, platformReports,
                   outputWritten>>
    /\ UNCHANGED <<ctxCancelled, fileVars, seqVars>>
ReleaseRepoPermit(r) ==
    /\ rpc[r] = "release"
    /\ repoSemaphore' = [repoSemaphore EXCEPT ![PlatformOf(r)] = @ - 1]
    /\ rpc' = [rpc EXCEPT ![r] = "done"]
    /\ UNCHANGED <<reposByPlatform, cliOptions, mainPc, ppc, platformResult,
                   repoResult, platformMu, reports, platformReports,
                   outputWritten>>
    /\ UNCHANGED <<ctxCancelled, fileVars, seqVars>>

\* The flag combinations of a run.
FlagSets ==
    { [DryRun |-> FALSE, Quiet |-> FALSE, Verbose |-> FALSE],
      [DryRun |-> TRUE,  Quiet |-> FALSE, Verbose |-> FALSE],
      [DryRun |-> FALSE, Quiet |-> TRUE,  Verbose |-> FALSE],
      [DryRun |-> FALSE, Quiet |-> FALSE, Verbose |-> TRUE] }

\* The repository groupings of a run: at most MaxRepos repositories in all.
Groupings ==
    { g \in [Platforms -> 0..MaxRepos] :
        g["github"] + g["gitlab"] + g["local"] <= MaxRepos }

FilesIdle ==
    /\ backend = "local"
    /\ filePaths = <<>>
    /\ maxConcurrency = 0
    /\ config = GenerousConfig
    /\ missing = {}
    /\ callPc = "idle"
    /\ wpc = <<>>
    /\ semaphore = 0
    /\ results = <<>>
    /\ resultsChan = <<>>
    /\ resultsClosed = FALSE
    /\ files = <<>>
    /\ ret = [files |-> <<>>, err |-> "none"]

InitOrch ==
    /\ ctxCancelled = FALSE
    /\ FilesIdle
    /\ SeqIdle
    /\ reposByPlatform \in Groupings
    /\ \E f \in FlagSets, k \in 0..MaxReposConc :
          cliOptions = [DryRun |-> f.DryRun, Quiet |-> f.Quiet,
                        Verbose |-> f.Verbose, MaxReposConcurrency |-> k]
    /\ mainPc = "running"
    /\ ppc = [p \in Platforms |-> IF Present(p) THEN "start" ELSE "idle"]
    /\ platformResult = [p \in Platforms |-> "none"]
    /\ rpc = [r \in 1..RepoCount |-> "idle"]
    /\ repoResult = [r \in 1..RepoCount |-> "none"]
    /\ repoSemaphore = [p \in Platforms |-> 0]
    /\ platformMu = 0
    /\ reports = [r \in 1..RepoCount |-> <<>>]
    /\ platformReports = [p \in Platforms |-> <<>>]
    /\ outputWritten = [r \in 1..RepoCount |-> FALSE]

NextOrch ==
    \/ \E p \in Platforms : PlatformSetup(p)
    \/ \E p \in Platforms : PlatformReport(p)
    \/ \E p \in Platforms : PlatformUnlock(p)
    \/ \E p \in Platforms : PlatformJoin(p)
    \/ ProcessRepositoriesReturn
    \/ \E r \in Repos : AcquireRepoPermit(r)
    \/ \E r \in Repos : ProcessRepository(r)
    \/ \E r \in Repos : VerbosePrint(r)
    \/ \E r \in Repos : VerboseUnlock(r)
    \/ \E r \in Repos : WriteOutput(r)
    \/ \E r \in Repos : ReportRepo(r)
    \/ \E r \in Repos : UnlockRepo(r)
    \/ \E r \in Repos : ReleaseRepoPermit(r)
    \/ CancelContext

SpecOrch == InitOrch /\ [][NextOrch]_vars

\* The steps of the program itself (every step but the caller's cancellation).
\* The Go scheduler runs a runnable goroutine eventually, so a run does not
\* stop while one of these steps is possible.
OrchProgress ==
    \/ \E p \in Platforms : PlatformSetup(p)
    \/ \E p \in Platforms : PlatformReport(p)
    \/ \E p \in Platforms : PlatformUnlock(p)
    \/ \E p \in Platforms : PlatformJoin(p)
    \/ ProcessRepositoriesReturn
    \/ \E r \in Repos : AcquireRepoPermit(r)
    \/ \E r \in Repos : ProcessRepository(r)
    \/ \E r \in Repos : VerbosePrint(r)
    \/ \E r \in Repos : VerboseUnlock(r)
    \/ \E r \in Repos : WriteOutput(r)
    \/ \E r \in Repos : ReportRepo(r)
    \/ \E r \in Repos : UnlockRepo(r)
    \/ \E r \in Repos : ReleaseRepoPermit(r)

FairSpecOrch == InitOrch /\ [][OrchProgress]_vars /\ WF_vars(OrchProgress)

Init == InitFiles \/ InitOrch

Next == NextFiles \/ NextOrch

Spec == Init /\ [][Next]_vars

(***************************************************************************)
(* Repository processor: RepoProcessor.ProcessRepository                   *)
(*                                                                         *)
(* A path is the sequence of its segments (strings.Split(path, "/")). A    *)
(* glob pattern is modelled by its shape: "*.ext", a literal name, or a    *)
(* directory pattern "name/".                                              *)
(***************************************************************************)

\* Bound: the number of entries of a tree listing.
MaxTreeEntries == 3

\* The entries a provider's tree listing is drawn from, in listing order,
\* with the size and kind the backend finds when it fetches a blob.
RepoCatalog ==
    << [Path |-> <<"src">>,             Type |-> "tree", Size |-> 0, IsBinary |-> FALSE],
       [Path |-> <<"src", "main.go">>,  Type |-> "blob", Size |-> 2, IsBinary |-> FALSE],
       [Path |-> <<"README.md">>,       Type |-> "blob", Size |-> 1, IsBinary |-> FALSE],
       [Path |-> <<"logs">>,            Type |-> "tree", Size |-> 0, IsBinary |-> FALSE],
       [Path |-> <<"logs", "app.log">>, Type |-> "blob", Size |-> 3, IsBinary |-> FALSE],
       [Path |-> <<"logo.png">>,        Type |-> "blob", Size |-> 4, IsBinary |-> TRUE] >>

\* The subsequence of seq at the positions in S.
SubSeqAt(seq, S) ==
    LET F[i \in 0..Len(seq)] ==
            IF i = 0 THEN <<>>
            ELSE IF i \in S THEN Append(F[i - 1], seq[i]) ELSE F[i - 1]
    IN  F[Len(seq)]

\* The tree listings of a run.
TreeListings ==
    { SubSeqAt(RepoCatalog, S) :
        S \in { T \in SUBSET DOMAIN RepoCatalog : Cardinality(T) <= MaxTreeEntries } }

\* filepath.Base and filepath.Ext of the names used.
BaseName(path) == path[Len(path)]
NameExt(name) ==
    CASE name = "main.go"   -> "go"
      [] name = "README.md" -> "md"
      [] name = "app.log"   -> "log"
      [] name = "logo.png"  -> "png"
      [] OTHER              -> ""

\* filepath.Match(pattern, s), s given by its segments. '*' does not match a
\* separator, so "*.ext" and a literal match one-segment strings only; a
\* pattern ending in "/" matches no base name and no listed path.
Match(pattern, segs) ==
    CASE pattern.kind = "ext"     -> Len(segs) = 1 /\ NameExt(segs[1]) = pattern.text
      [] pattern.kind = "literal" -> segs = <<pattern.text>>
      [] OTHER                    -> FALSE

\* strings.Contains(filePath, dirPattern + "/")
ContainsDir(path, dir) == \E k \in 1..(Len(path) - 1) : path[k] = dir

ShouldIgnore(path, ignore) ==
    \E i \in DOMAIN ignore :
        \/ Match(ignore[i], <<BaseName(path)>>)
        \/ Match(ignore[i], path)
        \/ ignore[i].kind = "dir" /\ ContainsDir(path, ignore[i].text)

ShouldInclude(path, includeOnly) ==
    \/ Len(includeOnly) = 0
    \/ \E i \in DOMAIN includeOnly :
          \/ Match(includeOnly[i], <<BaseName(path)>>)
          \/ Match(includeOnly[i], path)

\* Whether filterFiles keeps an entry.
FilterKeeps(file, cfg) ==
    IF ShouldIgnore(file.Path, cfg.Ignore) THEN FALSE
    ELSE IF file.Type = "tree" THEN TRUE
    ELSE ~(Len(cfg.IncludeOnly) > 0 /\ ~ShouldInclude(file.Path, cfg.IncludeOnly))

FilterFiles(tree, cfg) ==
    SubSeqAt(tree, {i \in DOMAIN tree : FilterKeeps(tree[i], cfg)})

\* A size string, by the groups of parseSize's regular expression: the
\* number and the unit; the empty string has neither.
EmptySizeString == [number |-> 0, unit |-> ""]
SizeStrings ==
    { EmptySizeString,
      [number |-> 2, unit |-> "B"],
      [number |-> 1, unit |-> "TB"],
      [number |-> 1, unit |-> "bytes"] }

Multipliers == [u \in {"B", "KB", "MB", "GB"} |->
                  CASE u = "B" -> 1 [] u = "KB" -> 1024
                    [] u = "MB" -> 1024 * 1024 [] OTHER -> 1024 * 1024 * 1024]

ParseSize(sizeStr) ==
    IF sizeStr.unit \notin {"B", "KB", "MB", "GB", "TB"}
    THEN [size |-> 0, err |-> "invalid size format"]
    ELSE IF sizeStr.unit \notin DOMAIN Multipliers
    THEN [size |-> 0, err |-> "unknown size unit"]
    ELSE [size |-> sizeStr.number * Multipliers[sizeStr.unit], err |-> "nil"]

\* The nil error of a FileInfo, and the error of a failed fetch.
NoError == [msg |-> "nil", path |-> <<>>]
FetchError(msg, path) == [msg |-> msg, path |-> path]

\* The FileInfo the provider returns for a blob entry: a path in notFound
\* has no size and the error of the failed stat; a path in unreadable has
\* its size and the error of the failed read.
FetchedFileInfo(entry, notFound, unreadable) ==
    IF entry.Path \in notFound
    THEN [Path |-> entry.Path, Size |-> 0, IsDir |-> FALSE, IsBinary |-> FALSE,
          Error |-> FetchError("file not found", entry.Path)]
    ELSE IF entry.Path \in unreadable /\ ~entry.IsBinary
    THEN [Path |-> entry.Path, Size |-> entry.Size, IsDir |-> FALSE,
          IsBinary |-> FALSE,
          Error |-> FetchError("failed to read file", entry.Path)]
    ELSE [Path |-> entry.Path, Size |-> entry.Size, IsDir |-> FALSE,
          IsBinary |-> entry.IsBinary, Error |-> NoError]

\* provider.GetMultipleFiles as the processor sees it: the local backend
\* rejects the whole call above its ceilings, otherwise one FileInfo per path.
ProviderGetMultipleFiles(fileEntries, input) ==
    IF TooManyFiles(Len(fileEntries), input.limits)
    THEN [files |-> <<>>, err |-> "too many files"]
    ELSE IF MemoryTooHigh(Len(fileEntries), input.limits)
    THEN [files |-> <<>>, err |-> "memory usage too high"]
    ELSE [files |-> [i \in DOMAIN fileEntries |->
                        FetchedFileInfo(fileEntries[i], input.notFound,
                                        input.unreadable)],
          err |-> "nil"]

\* if rp.config.MaxFileSize != "" { maxSize, err := parseSize(...);
\*   if err == nil && file.Size > maxSize { continue } }
Oversize(file, cfg) ==
    /\ cfg.MaxFileSize # EmptySizeString
    /\ ParseSize(cfg.MaxFileSize).err = "nil"
    /\ file.Size > ParseSize(cfg.MaxFileSize).size

\* One iteration of the loop over the fetched files.
MutPostFetchKeepsErrored(acc, file, cfg) ==
    IF Oversize(file, cfg) THEN acc
    ELSE IF cfg.SkipBinary /\ file.IsBinary THEN acc
    ELSE IF file.Error # NoError
    THEN [acc EXCEPT !.errors = Append(@, file.Error),
                     !.processedFiles = Append(@, file)]
    ELSE [acc EXCEPT !.processedFiles = Append(@, file),
                     !.totalSize = @ + file.Size]
MutPostFetchErrorsFirst(acc, file, cfg) ==
    IF file.Error # NoError
    THEN [acc EXCEPT !.errors = Append(@, file.Error)]
    ELSE IF Oversize(file, cfg) THEN acc
    ELSE IF cfg.SkipBinary /\ file.IsBinary THEN acc
    ELSE [acc EXCEPT !.processedFiles = Append(@, file),
                     !.totalSize = @ + file.Size]
PostFetchStep(acc, file, cfg) ==
    IF Oversize(file, cfg) THEN acc
    ELSE IF cfg.SkipBinary /\ file.IsBinary THEN acc
    ELSE IF file.Error # NoError
    THEN [acc EXCEPT !.errors = Append(@, file.Error)]
    ELSE [acc EXCEPT !.processedFiles = Append(@, file),
                     !.totalSize = @ + file.Size]

PostFetch(fetched, cfg) ==
    LET F[i \in 0..Len(fetched)] ==
            IF i = 0
            THEN [processedFiles |-> <<>>, totalSize |-> 0, errors |-> <<>>]
            ELSE PostFetchStep(F[i - 1], fetched[i], cfg)
    IN  F[Len(fetched)]

\* The FileInfo re-injected for a directory entry.
DirInfo(dir) ==
    [Path |-> dir.Path, Size |-> 0, IsDir |-> TRUE, IsBinary |-> FALSE,
     Error |-> NoError]

\* The ProcessingResult built at the end of ProcessRepository.
BuildResult(acc, directoryEntries) ==
    LET processedFiles ==
            acc.processedFiles \o
                [i \in DOMAIN directoryEntries |-> DirInfo(directoryEntries[i])]
    IN  [Files      |-> processedFiles,
         TotalFiles |-> Len(processedFiles),
         TotalSize  |-> acc.totalSize,
         Errors     |-> acc.errors]

FileEntries(filtered) ==
    SubSeqAt(filtered, {i \in DOMAIN filtered : filtered[i].Type # "tree"})
DirectoryEntries(filtered) ==
    SubSeqAt(filtered, {i \in DOMAIN filtered : filtered[i].Type = "tree"})

\* ProcessRepository up to the partition of the filtered listing:
\* GetRepository, GetRepositoryTree (either failure is returned at once) and
\* filterFiles.
ListAndFilter ==
    /\ procPc = "start"
    /\ IF procInput.repoErr
       THEN /\ procRet' = [hasResult |-> FALSE, result |-> NilResult,
                           err |-> "failed to get repository info"]
            /\ procPc' = "returned"
            /\ UNCHANGED procFiltered
       ELSE IF procInput.treeErr
       THEN /\ procRet' = [hasResult |-> FALSE, result |-> NilResult,
                           err |-> "failed to get repository tree"]
            /\ procPc' = "returned"
            /\ UNCHANGED procFiltered
       ELSE /\ procFiltered' = FilterFiles(procInput.tree, procInput.cfg)
            /\ procPc' = "filtered"
            /\ UNCHANGED procRet
    /\ UNCHANGED procInput
    /\ UNCHANGED notProcVars

\* The rest of ProcessRepository: the bulk fetch (its failure is returned),
\* the loop over the fetched files and the result.
FetchAndBuild ==
    /\ procPc = "filtered"
    /\ LET fetch == ProviderGetMultipleFiles(FileEntries(procFiltered), procInput)
       IN  procRet' =
               IF fetch.err # "nil"
               THEN [hasResult |-> FALSE, result |-> NilResult,
                     err |-> "failed to fetch files"]
               ELSE [hasResult |-> TRUE,
                     result |-> BuildResult(PostFetch(fetch.files, procInput.cfg),
                                            DirectoryEntries(procFiltered)),
                     err |-> "nil"]
    /\ procPc' = "returned"
    /\ UNCHANGED <<procInput, procFiltered>>
    /\ UNCHANGED notProcVars

\* The ignore and include-only lists of a run.
IgnoreLists ==
    { <<>>,
      << [kind |-> "ext", text |-> "log"] >>,
      << [kind |-> "dir", text |-> "logs"] >>,
      << [kind |-> "literal", text |-> "src"] >> }
IncludeOnlyLists == { <<>>, << [kind |-> "ext", text |-> "go"] >> }

\* The ceilings of the backend behind the provider.
ProviderLimits ==
    { GenerousConfig,
      [MaxFiles |-> 2, MaxMemoryPerFile |-> 1, MaxTotalMemory |-> 16] }

InitProc ==
    /\ ctxCancelled = FALSE
    /\ FilesIdle
    /\ OrchIdle
    /\ SanIdle
    /\ TreeIdle
    /\ GenIdle
    /\ TaskIdle
    /\ RetryIdle
    /\ \E t \in TreeListings, ig \in IgnoreLists, inc \in IncludeOnlyLists,
          ms \in SizeStrings, sb \in BOOLEAN, lim \in ProviderLimits,
          nf \in SUBSET {<<"README.md">>},
          ur \in SUBSET {<<"logs", "app.log">>},
          pe \in {"none", "repo", "tree"} :
          procInput = [kind |-> "call",
                       repoErr |-> pe = "repo", treeErr |-> pe = "tree",
                       tree |-> t,
                       cfg |-> [Ignore |-> ig, IncludeOnly |-> inc,
                                MaxFileSize |-> ms, SkipBinary |-> sb],
                       limits |-> lim, notFound |-> nf, unreadable |-> ur]
    /\ procFiltered = <<>>
    /\ procPc = "start"
    /\ procRet = [hasResult |-> FALSE, result |-> NilResult, err |-> "none"]

NextProc == ListAndFilter \/ FetchAndBuild

SpecProc == InitProc /\ [][NextProc]_vars

(***************************************************************************)
(* Local backend: Client.sanitizePath and the file access that follows it  *)
(* in GetFileContent and GetFileInfo.                                      *)
(*                                                                         *)
(* A path string is modelled by whether it is rooted and by its segments;  *)
(* "..x" stands for a name that begins with two dots, such as the single   *)
(* segment "..\..\windows\system32".                                       *)
(***************************************************************************)

\* Bound: the number of segments of a requested path.
MaxSegments == 3

PathSegments == {"..", ".", "a", "b", "..x"}

\* The client's base directory (absolute and clean, from NewClient).
BasePath == <<"home", "repo">>

\* All the sequences over S of length at most n.
SeqsUpTo(S, n) == UNION { [1..k -> S] : k \in 0..n }

\* filepath.Clean: "." and empty segments are dropped, ".." removes the
\* segment before it, is dropped at the root of a rooted path, and is kept
\* at the front of a relative path. No segments left stands for "." ("/"
\* when rooted).
Clean(path) ==
    LET F[i \in 0..Len(path.segs)] ==
            IF i = 0 THEN <<>>
            ELSE LET out == F[i - 1]
                     seg == path.segs[i]
                 IN  IF seg = "." \/ seg = "" THEN out
                     ELSE IF seg = ".."
                     THEN IF Len(out) > 0 /\ out[Len(out)] # ".."
                          THEN SubSeq(out, 1, Len(out) - 1)
                          ELSE IF path.abs THEN out
                          ELSE Append(out, "..")
                     ELSE Append(out, seg)
    IN  [abs |-> path.abs, segs |-> F[Len(path.segs)]]

\* strings.HasPrefix(cleanPath, "..")
HasDotDotPrefix(path) ==
    Len(path.segs) > 0 /\ path.segs[1] \in {"..", "..x"}

\* filepath.Join(c.basePath, cleanPath) and filepath.Abs of it: the base is
\* absolute, so the result is the cleaned concatenation.
JoinBase(cleanPath) == Clean([abs |-> TRUE, segs |-> BasePath \o cleanPath.segs])

\* strings.HasPrefix(absPath, absBase + "/")
UnderBase(absPath) ==
    /\ Len(absPath.segs) > Len(BasePath)
    /\ SubSeq(absPath.segs, 1, Len(BasePath)) = BasePath

MutSanitizePrefixOnRawPath(filePath) ==
    LET cleanPath == Clean(filePath)
        fullPath == JoinBase(cleanPath)
    IN  IF filePath.abs \/ HasDotDotPrefix(filePath)
        THEN [fullPath |-> <<>>, err |-> "invalid file path"]
        ELSE IF ~UnderBase(fullPath)
        THEN [fullPath |-> <<>>, err |-> "path outside base directory"]
        ELSE [fullPath |-> fullPath.segs, err |-> "nil"]
SanitizePath(filePath) ==
    LET cleanPath == Clean(filePath)
        fullPath == JoinBase(cleanPath)
    IN  IF cleanPath.abs \/ HasDotDotPrefix(cleanPath)
        THEN [fullPath |-> <<>>, err |-> "invalid file path"]
        ELSE IF ~UnderBase(fullPath)
        THEN [fullPath |-> <<>>, err |-> "path outside base directory"]
        ELSE [fullPath |-> fullPath.segs, err |-> "nil"]

\* fullPath, err := c.sanitizePath(filePath); if err != nil { return ... }
SanitizeRequest ==
    /\ sanPc = "start"
    /\ sanRet' = SanitizePath(sanInput)
    /\ sanPc' = IF SanitizePath(sanInput).err = "nil" THEN "sanitized"
                ELSE "returned"
    /\ UNCHANGED <<sanInput, fsAccessed>>
    /\ UNCHANGED notSanVars

\* info, err := os.Stat(fullPath) and the reads that follow, all at fullPath.
AccessFile ==
    /\ sanPc = "sanitized"
    /\ fsAccessed' = fsAccessed \cup {sanRet.fullPath}
    /\ sanPc' = "returned"
    /\ UNCHANGED <<sanInput, sanRet>>
    /\ UNCHANGED notSanVars

InitSan ==
    /\ ctxCancelled = FALSE
    /\ FilesIdle
    /\ OrchIdle
    /\ ProcIdle
    /\ TreeIdle
    /\ GenIdle
    /\ TaskIdle
    /\ RetryIdle
    /\ sanInput \in [abs : BOOLEAN, segs : SeqsUpTo(PathSegments, MaxSegments)]
    /\ sanPc = "start"
    /\ sanRet = [fullPath |-> <<>>, err |-> "none"]
    /\ fsAccessed = {}

NextSan == SanitizeRequest \/ AccessFile

SpecSan == InitSan /\ [][NextSan]_vars

(***************************************************************************)
(* Tree builder: Builder.BuildProjectTree (the generator's own             *)
(* buildProjectTree is the same code).                                     *)
(***************************************************************************)

\* Bound: the number of FileInfo entries given to BuildProjectTree.
MaxTreeFiles == 3

\* The FileInfo entries a call is drawn from: files and directories at two
\* levels, one path given twice as a file with two sizes, and one path given
\* both as a directory and as a file.
TreeCatalog ==
    << [Path |-> <<"src">>,            IsDir |-> TRUE,  Size |-> 0],
       [Path |-> <<"src", "main.go">>, IsDir |-> FALSE, Size |-> 2],
       [Path |-> <<"src", "lib.go">>,  IsDir |-> FALSE, Size |-> 1],
       [Path |-> <<"src", "pkg">>,     IsDir |-> TRUE,  Size |-> 0],
       [Path |-> <<"README.md">>,      IsDir |-> FALSE, Size |-> 1],
       [Path |-> <<"README.md">>,      IsDir |-> FALSE, Size |-> 7],
       [Path |-> <<"src">>,            IsDir |-> FALSE, Size |-> 5] >>

\* The names in the byte order Go's string comparison gives them.
NameOrder == <<"README.md", "lib.go", "main.go", "pkg", "src">>
NameLess(a, b) ==
    \E i, j \in DOMAIN NameOrder :
        NameOrder[i] = a /\ NameOrder[j] = b /\ i < j

\* The comparison function given to sort.Slice.
NodeLess(a, b) ==
    IF a.IsDir # b.IsDir THEN a.IsDir ELSE NameLess(a.Name, b.Name)

\* sort.Slice(node.Children, less): the children's names are pairwise
\* distinct, so less is a strict total order and the sorted slice is unique;
\* it is built here by insertion.
MutSortSliceKeepsInputOrder(children) == children
SortSlice(children) ==
    LET Insert(sorted, x) ==
            LET k == Cardinality({i \in DOMAIN sorted :
                                     NodeLess(sorted[i], x)})
            IN  SubSeq(sorted, 1, k) \o <<x>>
                    \o SubSeq(sorted, k + 1, Len(sorted))
        F[i \in 0..Len(children)] ==
            IF i = 0 THEN <<>> ELSE Insert(F[i - 1], children[i])
    IN  F[Len(children)]

RECURSIVE SortTreeNodesRecursive(_)
MutSortTopLevelOnly(node) == [node EXCEPT !.Children = SortSlice(@)]
SortTreeNodesRecursive(node) ==
    IF Len(node.Children) = 0 THEN node
    ELSE LET sorted == SortSlice(node.Children)
         IN  [node EXCEPT !.Children =
                 [i \in DOMAIN sorted |-> SortTreeNodesRecursive(sorted[i])]]

\* addFileToTree from part i of the path on, current being the node reached.
RECURSIVE AddFileToTree(_, _, _, _)
AddFileToTree(current, parts, i, file) ==
    IF i > Len(parts) THEN current
    ELSE LET part == parts[i]
             isLastPart == i = Len(parts)
             matches == {j \in DOMAIN current.Children :
                            current.Children[j].Name = part}
         IN  IF matches = {}
             THEN LET newNode ==
                          [Name     |-> part,
                           Path     |-> SubSeq(parts, 1, i),
                           IsDir    |-> ~isLastPart \/ file.IsDir,
                           Size     |-> IF isLastPart /\ ~file.IsDir
                                        THEN file.Size ELSE 0,
                           Children |-> <<>>]
                  IN  [current EXCEPT !.Children =
                          Append(@, AddFileToTree(newNode, parts, i + 1, file))]
             ELSE LET j == CHOOSE m \in matches : \A n \in matches : m <= n
                      found == IF isLastPart /\ ~file.IsDir
                               THEN [current.Children[j] EXCEPT
                                        !.Size = file.Size, !.IsDir = FALSE]
                               ELSE current.Children[j]
                  IN  [current EXCEPT !.Children[j] =
                          AddFileToTree(found, parts, i + 1, file)]

RootNode == [Name |-> "", Path |-> <<>>, IsDir |-> TRUE, Size |-> 0,
             Children |-> <<>>]

BuildProjectTree(fileInfos) ==
    IF Len(fileInfos) = 0 THEN <<>>
    ELSE LET F[i \in 0..Len(fileInfos)] ==
                 IF i = 0 THEN RootNode
                 ELSE IF fileInfos[i].Path = <<>> THEN F[i - 1]
                 ELSE AddFileToTree(F[i - 1], fileInfos[i].Path, 1, fileInfos[i])
         IN  SortTreeNodesRecursive(F[Len(fileInfos)]).Children

\* One call of BuildProjectTree.
BuildTree(c) ==
    /\ treePc[c] = "start"
    /\ treeOut' = [treeOut EXCEPT ![c] = BuildProjectTree(treeInputs[c])]
    /\ treePc' = [treePc EXCEPT ![c] = "returned"]
    /\ UNCHANGED treeInputs
    /\ UNCHANGED notTreeVars

\* The lists of at most n pairwise different entries of the catalog.
EntryLists(n) ==
    { [i \in DOMAIN ix |-> TreeCatalog[ix[i]]] :
        ix \in { s \in SeqsUpTo(DOMAIN TreeCatalog, n) :
                    \A i, j \in DOMAIN s : i # j => s[i] # s[j] } }

\* The reorderings of a list.
Reorderings(list) ==
    { [i \in DOMAIN list |-> list[f[i]]] : f \in Permutations(DOMAIN list) }

InitTree ==
    /\ ctxCancelled = FALSE
    /\ FilesIdle
    /\ OrchIdle
    /\ ProcIdle
    /\ SanIdle
    /\ GenIdle
    /\ TaskIdle
    /\ RetryIdle
    /\ \E list \in EntryLists(MaxTreeFiles) :
          \E other \in Reorderings(list) : treeInputs = <<list, other>>
    /\ treePc = <<"start", "start">>
    /\ treeOut = << <<>>, <<>> >>

NextTree == \E c \in DOMAIN treePc : BuildTree(c)

SpecTree == InitTree /\ [][NextTree]_vars

(***************************************************************************)
(* Generator: GenerateLLMsFullText.  Paths are sequences of characters, so *)
(* that the string tests of getFilePriority and the comparison of paths    *)
(* are computed as Go computes them.                                       *)
(***************************************************************************)

\* Bound: the number of FileContents entries of one LLMsOutput.
MaxGenFiles == 3

\* Bound: the number of files of the per-file cap in one long list.
MaxBulkFiles == 21

MaxFileSize == 5 * 1024 * 1024
MaxTotalSize == 100 * 1024 * 1024
WarningFileSize == 1024 * 1024

\* The characters that occur in the paths, in byte order.
Alphabet ==
    <<".", "/", "A", "D", "E", "M", "R", "_",
      "a", "b", "c", "d", "e", "f", "g", "h", "i", "j", "k", "l", "m",
      "n", "o", "p", "q", "r", "s", "t", "u", "v", "w", "x", "y", "z">>

\* a < b on Go strings: byte-wise lexicographic.
StringLess(a, b) ==
    LET CharRank(ch) == CHOOSE i \in DOMAIN Alphabet : Alphabet[i] = ch
    IN
    \E k \in 0..Len(a) :
        /\ k <= Len(b)
        /\ \A i \in 1..k : a[i] = b[i]
        /\ IF k = Len(a) THEN k < Len(b)
           ELSE k < Len(b) /\ CharRank(a[k + 1]) < CharRank(b[k + 1])

ToLower(str) ==
    LET LowerOf(ch) ==
            CASE ch = "A" -> "a" [] ch = "D" -> "d" [] ch = "E" -> "e"
              [] ch = "M" -> "m" [] ch = "R" -> "r" [] OTHER -> ch
    IN  [i \in DOMAIN str |-> LowerOf(str[i])]

HasPrefix(str, prefix) ==
    Len(prefix) <= Len(str) /\ SubSeq(str, 1, Len(prefix)) = prefix
HasSuffix(str, suffix) ==
    /\ Len(suffix) <= Len(str)
    /\ SubSeq(str, Len(str) - Len(suffix) + 1, Len(str)) = suffix
Contains(str, sub) ==
    \E i \in 1..(Len(str) + 1) :
        i + Len(sub) - 1 <= Len(str) /\ SubSeq(str, i, i + Len(sub) - 1) = sub

\* filepath.Base of a path without a trailing separator.
Base(path) ==
    LET seps == {i \in DOMAIN path : path[i] = "/"}
    IN  IF seps = {} THEN path
        ELSE SubSeq(path, (CHOOSE i \in seps : \A j \in seps : j <= i) + 1,
                    Len(path))

ConfigExts ==
    { <<".", "j", "s", "o", "n">>, <<".", "y", "a", "m", "l">>,
      <<".", "y", "m", "l">>, <<".", "t", "o", "m", "l">>,
      <<".", "e", "n", "v">> }
CodeExts ==
    { <<".", "g", "o">>, <<".", "p", "y">>, <<".", "j", "s">>,
      <<".", "t", "s">>, <<".", "j", "a", "v", "a">>, <<".", "c">>,
      <<".", "c", "p", "p">>, <<".", "r", "s">>, <<".", "r", "b">> }

GetFilePriority(file) ==
    LET fileName == ToLower(Base(file.Path))
        filePath == ToLower(file.Path)
    IN  IF \/ Contains(fileName, <<"m", "a", "i", "n">>)
           \/ Contains(fileName, <<"i", "n", "d", "e", "x">>) THEN 1
        ELSE IF \E ext \in ConfigExts : HasSuffix(fileName, ext) THEN 2
        ELSE IF \/ HasSuffix(fileName, <<".", "m", "d">>)
                \/ HasPrefix(fileName, <<"r", "e", "a", "d", "m", "e">>) THEN 3
        ELSE IF \E ext \in CodeExts : HasSuffix(fileName, ext) THEN 4
        ELSE IF \/ Contains(filePath, <<"t", "e", "s", "t">>)
                \/ Contains(fileName, <<"s", "p", "e", "c">>) THEN 6
        ELSE 5

\* The comparison function sortFilesByImportance gives to sort.Slice.
ImportanceLess(a, b) ==
    IF GetFilePriority(a) # GetFilePriority(b)
    THEN GetFilePriority(a) < GetFilePriority(b)
    ELSE StringLess(a.Path, b.Path)

\* sort.Slice on a copy of the list: the paths of one list are pairwise
\* different, so the comparison is a strict total order and the sorted
\* list is unique.
MutSortFilesKeepsInputOrder(fileInfos) == fileInfos
SortFilesByImportance(fileInfos) ==
    LET Insert(sorted, x) ==
            LET k == Cardinality({i \in DOMAIN sorted :
                                     ImportanceLess(sorted[i], x)})
            IN  SubSeq(sorted, 1, k) \o <<x>>
                    \o SubSeq(sorted, k + 1, Len(sorted))
        F[i \in 0..Len(fileInfos)] ==
            IF i = 0 THEN <<>> ELSE Insert(F[i - 1], fileInfos[i])
    IN  F[Len(fileInfos)]

\* validateFileSize: the error of the first file, in list order, that is over
\* the per-file cap or takes the running total over the total cap.
MutValidateFileSizeWithoutTotal(fileInfos) ==
    IF \E i \in DOMAIN fileInfos :
          ~fileInfos[i].IsDir /\ fileInfos[i].Size > MaxFileSize
    THEN [err |-> "file exceeds maximum size", path |-> <<>>, totalSize |-> 0]
    ELSE [err |-> "nil", path |-> <<>>, totalSize |-> 0]
ValidateFileSize(fileInfos) ==
    LET F[i \in 0..Len(fileInfos)] ==
            IF i = 0 THEN [err |-> "nil", path |-> <<>>, totalSize |-> 0]
            ELSE LET prev == F[i - 1]
                     file == fileInfos[i]
                 IN  IF prev.err # "nil" \/ file.IsDir THEN prev
                     ELSE IF file.Size > MaxFileSize
                     THEN [prev EXCEPT !.err = "file exceeds maximum size",
                                       !.path = file.Path]
                     ELSE IF prev.totalSize + file.Size > MaxTotalSize
                     THEN [err |-> "total file size exceeds limit",
                           path |-> <<>>,
                           totalSize |-> prev.totalSize + file.Size]
                     ELSE [prev EXCEPT !.totalSize = @ + file.Size]
    IN  F[Len(fileInfos)]

\* What the loop of GenerateLLMsFullText writes for one file.
FileSection(file) ==
    IF file.IsDir \/ file.IsBinary \/ file.HasError THEN <<>>
    ELSE IF file.Size > MaxFileSize
    THEN << [kind |-> "file", path |-> file.Path, heading |-> "plain",
             body |-> "too large", size |-> file.Size] >>
    ELSE << [kind |-> "file", path |-> file.Path,
             heading |-> IF file.Size > WarningFileSize
                         THEN "large file" ELSE "plain",
             body |-> "content", size |-> file.Size] >>

FileSections(sortedFiles) ==
    LET F[i \in 0..Len(sortedFiles)] ==
            IF i = 0 THEN <<>> ELSE F[i - 1] \o FileSection(sortedFiles[i])
    IN  F[Len(sortedFiles)]

\* GenerateLLMsFullText up to the validation: on an error the document is the
\* error block and nothing else.
ValidateBeforeGenerating ==
    /\ genPc = "start"
    /\ LET v == ValidateFileSize(genInput.FileContents)
       IN  IF v.err # "nil"
           THEN /\ genOut' = << [kind |-> "error", msg |-> v.err,
                                 path |-> v.path] >>
                /\ genPc' = "returned"
           ELSE /\ genOut' = <<>>
                /\ genPc' = "validated"
    /\ UNCHANGED genInput
    /\ UNCHANGED notGenVars

\* GenerateLLMsTextWithoutUnixTree: header, repository information, tree.
WriteStructure ==
    /\ genPc = "validated"
    /\ genOut' = genOut \o
          << [kind |-> "header", totalFiles |-> genInput.TotalFiles],
             [kind |-> "repository information"],
             [kind |-> "project structure", tree |-> genInput.ProjectTree] >>
    /\ genPc' = "structure"
    /\ UNCHANGED genInput
    /\ UNCHANGED notGenVars

\* The file contents section, in the order of sortFilesByImportance.
WriteFileContents ==
    /\ genPc = "structure"
    /\ genOut' = genOut \o << [kind |-> "file contents"] >>
                        \o FileSections(SortFilesByImportance(genInput.FileContents))
    /\ genPc' = "returned"
    /\ UNCHANGED genInput
    /\ UNCHANGED notGenVars

\* The FileInfo entries an LLMsOutput is drawn from.
GenCatalog ==
    << [Path |-> <<"m", "a", "i", "n", ".", "g", "o">>,
        IsDir |-> FALSE, IsBinary |-> FALSE, HasError |-> FALSE, Size |-> 10],
       [Path |-> <<"b", "i", "g", ".", "t", "x", "t">>,
        IsDir |-> FALSE, IsBinary |-> FALSE, HasError |-> FALSE,
        Size |-> 6 * 1024 * 1024],
       [Path |-> <<"R", "E", "A", "D", "M", "E", ".", "m", "d">>,
        IsDir |-> FALSE, IsBinary |-> FALSE, HasError |-> FALSE,
        Size |-> 2 * 1024 * 1024],
       [Path |-> <<"c", "f", "g", ".", "j", "s", "o", "n">>,
        IsDir |-> FALSE, IsBinary |-> FALSE, HasError |-> FALSE,
        Size |-> 5 * 1024 * 1024],
       [Path |-> <<"d", "o", "c", "s">>,
        IsDir |-> TRUE, IsBinary |-> FALSE, HasError |-> FALSE, Size |-> 0],
       [Path |-> <<"l", "o", "g", "o", ".", "p", "n", "g">>,
        IsDir |-> FALSE, IsBinary |-> TRUE, HasError |-> FALSE, Size |-> 4096],
       [Path |-> <<"d", "o", "c", "s", "/", "x", ".", "p", "y">>,
        IsDir |-> FALSE, IsBinary |-> FALSE, HasError |-> TRUE, Size |-> 0],
       [Path |-> <<"i", "n", "d", "e", "x", ".", "j", "s">>,
        IsDir |-> FALSE, IsBinary |-> FALSE, HasError |-> FALSE, Size |-> 20],
       [Path |-> <<"a", "_", "t", "e", "s", "t", ".", "g", "o">>,
        IsDir |-> FALSE, IsBinary |-> FALSE, HasError |-> FALSE, Size |-> 30],
       [Path |-> <<"n", "o", "t", "e", "s", ".", "t", "x", "t">>,
        IsDir |-> FALSE, IsBinary |-> FALSE, HasError |-> FALSE, Size |-> 40],
       [Path |-> <<"t", "e", "s", "t", "/", "n", "o", "t", "e", "s", ".",
                   "t", "x", "t">>,
        IsDir |-> FALSE, IsBinary |-> FALSE, HasError |-> FALSE, Size |-> 50] >>

GenFileLists(n) ==
    { [i \in DOMAIN ix |-> GenCatalog[ix[i]]] :
        ix \in { s \in SeqsUpTo(DOMAIN GenCatalog, n) :
                    \A i, j \in DOMAIN s : i # j => s[i] # s[j] } }

\* The long lists: files pa, pb, ... of exactly the per-file cap each, alone
\* or after the small main.go, so that the running total stops at the total
\* cap, passes it by ten bytes or passes it by a whole file.
BulkFileLists ==
    { head \o [i \in 1..n |->
                 [Path |-> <<"p", Alphabet[8 + i]>>, IsDir |-> FALSE,
                  IsBinary |-> FALSE, HasError |-> FALSE,
                  Size |-> MaxFileSize]] :
        head \in {<<>>, <<GenCatalog[1]>>},
        n \in (MaxBulkFiles - 2)..MaxBulkFiles }

\* The trees an LLMsOutput carries.
GenTrees == { <<>>, BuildProjectTree(<<TreeCatalog[1], TreeCatalog[5]>>) }

InitGen ==
    /\ ctxCancelled = FALSE
    /\ FilesIdle
    /\ OrchIdle
    /\ ProcIdle
    /\ SanIdle
    /\ TreeIdle
    /\ TaskIdle
    /\ RetryIdle
    /\ \E fileInfos \in GenFileLists(MaxGenFiles) \cup BulkFileLists,
          tree \in GenTrees :
          genInput = [FileContents |-> fileInfos, ProjectTree |-> tree,
                      TotalFiles |-> Len(fileInfos)]
    /\ genPc = "start"
    /\ genOut = <<>>

NextGen == ValidateBeforeGenerating \/ WriteStructure \/ WriteFileContents

SpecGen == InitGen /\ [][NextGen]_vars

(***************************************************************************)
(* One platform goroutine of ProcessRepositories and the repository        *)
(* goroutines it starts, step by step: what each writes to stdout and      *)
(* stderr (through the logger or with fmt, the latter under platformMu),   *)
(* which provider methods it invokes and which output files it creates.    *)
(* Goroutine 0 is the platform's, goroutine r the one of repoInfos[r-1].   *)
(* Debug records, written only with --verbose, are not followed.           *)
(***************************************************************************)

\* Bound: the number of repositories given for the platform.
MaxTaskRepos == 2

\* The FullName of the repositories given for a platform: folders for the
\* local platform, owner/name paths for a remote one.
RepoNames(platform) ==
    IF platform = "local" THEN <<"dirA", "dirB", "dirC">>
    ELSE <<"o/a", "o/b", "o/c">>

TaskRepos == {t \in DOMAIN taskPc : t > 0}

\* What a logger call writes to stdout: SetQuiet raises the level to Error.
LoggerWrites(level) ==
    IF level = "error" \/ ~taskInput.Quiet THEN <<"log." \o level>> ELSE <<>>

\* What the provider of the platform reads for a call about a repository:
\* the local client reads its basePath whatever repoPath it is given, the
\* remote clients request the repoPath.
CallTarget(t) ==
    IF taskInput.platform = "local" THEN providerBase ELSE taskInput.repos[t]

\* A goroutine that goes on to ProcessRepository whatever the --dry-run flag.
MutTaskBeginIgnoresDryRun(t) ==
    /\ taskPc[t] = "start"
    /\ written' = [written EXCEPT ![t] = @ \o LoggerWrites("info")]
    /\ taskPc' = [taskPc EXCEPT ![t] = IF t = 0 THEN "setup" ELSE "process"]
    /\ UNCHANGED <<taskInput, taskMu, taskSem, taskResult, providerBase,
                   providerCalls, created>>
    /\ UNCHANGED notTaskVars

\* The goroutine's first logger record:
\* "Processing repositories for platform" or "Processing repository".
TaskBegin(t) ==
    /\ taskPc[t] = "start"
    /\ written' = [written EXCEPT ![t] = @ \o LoggerWrites("info")]
    /\ taskPc' = [taskPc EXCEPT ![t] =
                     IF t = 0 THEN "setup"
                     ELSE IF taskInput.DryRun THEN "dry" ELSE "process"]
    /\ UNCHANGED <<taskInput, taskMu, taskSem, taskResult, providerBase,
                   providerCalls, created>>
    /\ UNCHANGED notTaskVars

\* The platform goroutine from the token to the connection test; on success
\* processRepositoriesConcurrently starts the repository goroutines.
TaskPlatformSetup ==
    /\ taskPc[0] = "setup"
    /\ \E o \in SetupOutcomes(taskInput.platform, taskInput.DryRun, FALSE) :
        LET base == IF taskInput.platform = "local" /\ o # "providerErr"
                    THEN taskInput.repos[1] ELSE ""
            tested == ~taskInput.DryRun /\ o \in {"connErr", "ok"}
        IN  /\ providerBase' = base
            /\ providerCalls' = providerCalls \cup
                  (IF tested
                   THEN {[task |-> 0, method |-> "TestConnection",
                          target |-> base]}
                   ELSE {})
            /\ written' = [written EXCEPT ![0] =
                  @ \o (IF o \in {"connErr", "ok"}
                        THEN LoggerWrites("info") ELSE <<>>)
                    \o LoggerWrites(IF o = "ok" THEN "info" ELSE "error")]
            /\ taskResult' = [taskResult EXCEPT ![0] = o]
            /\ taskPc' = [t \in DOMAIN taskPc |->
                             IF o = "ok" THEN "wait"
                             ELSE IF t = 0 THEN "lock" ELSE taskPc[t]]
    /\ UNCHANGED <<taskInput, taskMu, taskSem, created>>
    /\ UNCHANGED notTaskVars

\* semaphore <- struct{}{}
TaskAcquirePermit(t) ==
    /\ t > 0
    /\ taskPc[t] = "wait"
    /\ CanSend(taskSem, ReposSemaphoreCap(taskInput.MaxReposConcurrency))
    /\ taskSem' = taskSem + 1
    /\ taskPc' = [taskPc EXCEPT ![t] = "start"]
    /\ UNCHANGED <<taskInput, taskMu, taskResult, written, providerBase,
                   providerCalls, created>>
    /\ UNCHANGED notTaskVars

\* processDryRun up to its report.
TaskDryRun(t) ==
    /\ taskPc[t] = "dry"
    /\ written' = [written EXCEPT ![t] = @ \o LoggerWrites("info")]
    /\ taskResult' = [taskResult EXCEPT ![t] = "dryrun"]
    /\ taskPc' = [taskPc EXCEPT ![t] =
                     IF taskInput.Quiet THEN "dryEnd" ELSE "lock"]
    /\ UNCHANGED <<taskInput, taskMu, taskSem, providerBase, providerCalls,
                   created>>
    /\ UNCHANGED notTaskVars

\* repoProcessor.ProcessRepository and the records about its result: the
\* provider is asked for the repository, its tree and its files, and the
\* first failure ends the call.  The local GetRepository cannot fail.
TaskProcessRepository(t) ==
    /\ taskPc[t] = "process"
    /\ \E o \in (IF taskInput.platform = "local" THEN {} ELSE {"repoErr"})
                   \cup {"treeErr", "filesErr", "ok"},
          withErrors \in BOOLEAN :
        LET methods == {"GetRepository"}
                \cup (IF o # "repoErr" THEN {"GetRepositoryTree"} ELSE {})
                \cup (IF o \in {"filesErr", "ok"}
                      THEN {"GetMultipleFiles"} ELSE {})
        IN  /\ providerCalls' = providerCalls \cup
                  {[task |-> t, method |-> m, target |-> CallTarget(t)] :
                      m \in methods}
            /\ IF o # "ok"
               THEN /\ written' = [written EXCEPT ![t] =
                          @ \o LoggerWrites("info") \o LoggerWrites("error")]
                    /\ taskResult' = [taskResult EXCEPT ![t] = "processErr"]
                    /\ taskPc' = [taskPc EXCEPT ![t] = "lock"]
               ELSE /\ written' = [written EXCEPT ![t] =
                          @ \o LoggerWrites("info")
                            \o (IF withErrors THEN LoggerWrites("warn")
                                ELSE <<>>)]
                    /\ taskResult' = [taskResult EXCEPT ![t] = "errors"]
                    /\ taskPc' = [taskPc EXCEPT ![t] =
                                     IF withErrors /\ taskInput.Verbose
                                     THEN "lock" ELSE "output"]
    /\ UNCHANGED <<taskInput, taskMu, taskSem, providerBase, created>>
    /\ UNCHANGED notTaskVars

\* os.MkdirAll and WriteFile with the logger records about them.
TaskWriteOutput(t) ==
    /\ taskPc[t] = "output"
    /\ \E o \in OutputOutcomes :
        /\ created' = created
              \cup (IF o # "mkdirErr"
                    THEN {[task |-> t, what |-> "directory"]} ELSE {})
              \cup (IF o = "ok"
                    THEN {[task |-> t, what |-> "llms-full.txt"]} ELSE {})
        /\ written' = [written EXCEPT ![t] =
              @ \o LoggerWrites(IF o = "ok" THEN "info" ELSE "error")]
        /\ taskResult' = [taskResult EXCEPT ![t] = o]
        /\ taskPc' = [taskPc EXCEPT ![t] =
                         IF o = "ok" /\ taskInput.Quiet THEN "release"
                         ELSE "lock"]
    /\ UNCHANGED <<taskInput, taskMu, taskSem, providerBase, providerCalls>>
    /\ UNCHANGED notTaskVars

\* platformMu.Lock()
TaskLock(t) ==
    /\ taskPc[t] = "lock"
    /\ taskMu = -1
    /\ taskMu' = t
    /\ taskPc' = [taskPc EXCEPT ![t] = "print"]
    /\ UNCHANGED <<taskInput, taskSem, taskResult, written, providerBase,
                   providerCalls, created>>
    /\ UNCHANGED notTaskVars

\* A report that prints the success summary whatever the result.
MutTaskPrintAlwaysSuccess(t) ==
    /\ taskPc[t] = "print"
    /\ written' = [written EXCEPT ![t] = Append(@, "stdout.success")]
    /\ taskPc' = [taskPc EXCEPT ![t] =
                     IF taskResult[t] \in {"ok", "dryrun"}
                     THEN "printRest" ELSE "unlock"]
    /\ UNCHANGED <<taskInput, taskMu, taskSem, taskResult, providerBase,
                   providerCalls, created>>
    /\ UNCHANGED notTaskVars

\* The first fmt call after the Lock: the only line of a failure and of the
\* error list, the first line of the success and the dry-run summaries.
TaskPrint(t) ==
    /\ taskPc[t] = "print"
    /\ LET line == CASE taskResult[t] = "ok"     -> "stdout.success"
                     [] taskResult[t] = "dryrun" -> "stdout.dryrun"
                     [] taskResult[t] = "errors" -> "stdout.errors"
                     [] OTHER                    -> "stderr.failure"
       IN  /\ written' = [written EXCEPT ![t] = Append(@, line)]
           /\ taskPc' = [taskPc EXCEPT ![t] =
                            IF taskResult[t] \in {"ok", "dryrun"}
                            THEN "printRest" ELSE "unlock"]
    /\ UNCHANGED <<taskInput, taskMu, taskSem, taskResult, providerBase,
                   providerCalls, created>>
    /\ UNCHANGED notTaskVars

\* The remaining lines of a summary.
TaskPrintRest(t) ==
    /\ taskPc[t] = "printRest"
    /\ written' = [written EXCEPT ![t] = Append(@, "stdout.rest")]
    /\ taskPc' = [taskPc EXCEPT ![t] = "unlock"]
    /\ UNCHANGED <<taskInput, taskMu, taskSem, taskResult, providerBase,
                   providerCalls, created>>
    /\ UNCHANGED notTaskVars

\* platformMu.Unlock() and what follows it.
TaskUnlock(t) ==
    /\ taskPc[t] = "unlock"
    /\ taskMu = t
    /\ taskMu' = -1
    /\ taskPc' = [taskPc EXCEPT ![t] =
                     IF t = 0 THEN "done"
                     ELSE IF taskResult[t] = "errors" THEN "output"
                     ELSE IF taskResult[t] = "dryrun" THEN "dryEnd"
                     ELSE "release"]
    /\ UNCHANGED <<taskInput, taskSem, taskResult, written, providerBase,
                   providerCalls, created>>
    /\ UNCHANGED notTaskVars

\* The last logger record of processDryRun.
TaskDryRunEnd(t) ==
    /\ taskPc[t] = "dryEnd"
    /\ written' = [written EXCEPT ![t] = @ \o LoggerWrites("info")]
    /\ taskPc' = [taskPc EXCEPT ![t] = "release"]
    /\ UNCHANGED <<taskInput, taskMu, taskSem, taskResult, providerBase,
                   providerCalls, created>>
    /\ UNCHANGED notTaskVars

\* defer func() { <-semaphore }(), then the deferred wg.Done()
TaskReleasePermit(t) ==
    /\ taskPc[t] = "release"
    /\ taskSem' = taskSem - 1
    /\ taskPc' = [taskPc EXCEPT ![t] = "done"]
    /\ UNCHANGED <<taskInput, taskMu, taskResult, written, providerBase,
                   providerCalls, created>>
    /\ UNCHANGED notTaskVars

\* wg.Wait() in processRepositoriesConcurrently, then the goroutine's end.
TaskPlatformJoin ==
    /\ taskPc[0] = "wait"
    /\ \A t \in TaskRepos : taskPc[t] = "done"
    /\ taskPc' = [taskPc EXCEPT ![0] = "done"]
    /\ UNCHANGED <<taskInput, taskMu, taskSem, taskResult, written,
                   providerBase, providerCalls, created>>
    /\ UNCHANGED notTaskVars

InitTask ==
    /\ ctxCancelled = FALSE
    /\ FilesIdle
    /\ OrchIdle
    /\ ProcIdle
    /\ SanIdle
    /\ TreeIdle
    /\ GenIdle
    /\ RetryIdle
    /\ \E platform \in {"local", "github"}, n \in 1..MaxTaskRepos,
          f \in FlagSets, k \in 0..MaxReposConc :
          /\ taskInput = [platform |-> platform,
                          repos |-> SubSeq(RepoNames(platform), 1, n),
                          DryRun |-> f.DryRun, Quiet |-> f.Quiet,
                          Verbose |-> f.Verbose, MaxReposConcurrency |-> k]
          /\ taskPc = [t \in 0..n |-> IF t = 0 THEN "start" ELSE "idle"]
          /\ taskResult = [t \in 0..n |-> "none"]
          /\ written = [t \in 0..n |-> <<>>]
    /\ taskMu = -1
    /\ taskSem = 0
    /\ providerBase = ""
    /\ providerCalls = {}
    /\ created = {}

NextTask ==
    \/ \E t \in DOMAIN taskPc : TaskBegin(t)
    \/ TaskPlatformSetup
    \/ \E t \in DOMAIN taskPc : TaskAcquirePermit(t)
    \/ \E t \in DOMAIN taskPc : TaskDryRun(t)
    \/ \E t \in DOMAIN taskPc : TaskProcessRepository(t)
    \/ \E t \in DOMAIN taskPc : TaskWriteOutput(t)
    \/ \E t \in DOMAIN taskPc : TaskLock(t)
    \/ \E t \in DOMAIN taskPc : TaskPrint(t)
    \/ \E t \in DOMAIN taskPc : TaskPrintRest(t)
    \/ \E t \in DOMAIN taskPc : TaskUnlock(t)
    \/ \E t \in DOMAIN taskPc : TaskDryRunEnd(t)
    \/ \E t \in DOMAIN taskPc : TaskReleasePermit(t)
    \/ TaskPlatformJoin

SpecTask == InitTask /\ [][NextTask]_vars

\* The Go scheduler runs a runnable goroutine eventually.
FairSpecTask == SpecTask /\ WF_vars(NextTask)

(***************************************************************************)
(* Retry wrapper: Client.WithRetry of the GitHub and GitLab clients.       *)
(* Error messages are sequences of characters, classified by the           *)
(* substring tests of isRateLimitError and isTemporaryError.               *)
(***************************************************************************)

\* Bound: the maxRetries argument.
MaxRetries == 2

\* The messages of the errors the operation may fail with; <<>> stands for
\* the nil error of a successful attempt.
ErrorMessages ==
    { <<"r", "a", "t", "e", " ", "l", "i", "m", "i", "t">>,
      <<"4", "0", "3">>,
      <<"4", "2", "9">>,
      <<"4", "0", "4">>,
      <<"t", "i", "m", "e", "o", "u", "t">>,
      <<"c", "o", "n", "n", "e", "c", "t", "i", "o", "n", " ",
        "r", "e", "s", "e", "t">> }

\* isRateLimitError of the GitHub client (part_007) and of the GitLab client.
IsRateLimitError(client, err) ==
    /\ err # <<>>
    /\ \/ Contains(err, <<"r", "a", "t", "e", " ", "l", "i", "m", "i", "t">>)
       \/ client = "github" /\ Contains(err, <<"4", "0", "3">>)
       \/ client = "gitlab" /\ Contains(err, <<"4", "2", "9">>)

IsTemporaryError(err) ==
    /\ err # <<>>
    /\ \/ Contains(err, <<"t", "i", "m", "e", "o", "u", "t">>)
       \/ Contains(err, <<"c", "o", "n", "n", "e", "c", "t", "i", "o", "n", " ",
                          "r", "e", "s", "e", "t">>)
       \/ Contains(err, <<"t", "e", "m", "p", "o", "r", "a", "r", "y", " ",
                          "f", "a", "i", "l", "u", "r", "e">>)

\* Whether the loop goes on to the next iteration after this error.
MutRetriesEveryError(client, err) == err # <<>>
Retryable(client, err) ==
    IsRateLimitError(client, err) \/ IsTemporaryError(err)

\* One iteration of the loop from the call of fn on: i is the number of
\* attempts made before it.
RetryAttempt ==
    /\ retryPc = "attempt"
    /\ LET i == Len(retryAttempts)
           err == retryInput.outcomes[i + 1]
       IN  /\ retryAttempts' = Append(retryAttempts, err)
           /\ IF err = <<>>
              THEN /\ retryRet' = [kind |-> "nil", err |-> <<>>]
                   /\ retryPc' = "returned"
              ELSE IF ~Retryable(retryInput.client, err)
              THEN /\ retryRet' = [kind |-> "error", err |-> err]
                   /\ retryPc' = "returned"
              ELSE IF i + 1 > retryInput.maxRetries
              THEN /\ retryRet' = [kind |-> "max retries exceeded",
                                   err |-> err]
                   /\ retryPc' = "returned"
              ELSE /\ retryPc' = "backoff"
                   /\ UNCHANGED retryRet
    /\ UNCHANGED <<ctxCancelled, retryInput>>
    /\ UNCHANGED notRetryVars

\* The select of an iteration after the first: ctx.Done() or the timer.
RetryBackoff ==
    /\ retryPc = "backoff"
    /\ \/ /\ ctxCancelled
          /\ retryRet' = [kind |-> "context canceled", err |-> <<>>]
          /\ retryPc' = "returned"
       \/ /\ retryPc' = "attempt"
          /\ UNCHANGED retryRet
    /\ UNCHANGED <<ctxCancelled, retryInput, retryAttempts>>
    /\ UNCHANGED notRetryVars

\* The caller cancels ctx while WithRetry runs.
CancelDuringRetry ==
    /\ ~ctxCancelled
    /\ retryPc \in {"attempt", "backoff"}
    /\ ctxCancelled' = TRUE
    /\ UNCHANGED retryVars
    /\ UNCHANGED <<fileVars, orchVars, procVars, sanVars, treeVars, genVars,
                   taskVars>>

InitRetry ==
    /\ ctxCancelled = FALSE
    /\ FilesIdle
    /\ OrchIdle
    /\ ProcIdle
    /\ SanIdle
    /\ TreeIdle
    /\ GenIdle
    /\ TaskIdle
    /\ \E client \in RemoteBackends, n \in 0..MaxRetries :
          \E outcomes \in [1..(n + 1) -> ErrorMessages \cup {<<>>}] :
             retryInput = [client |-> client, maxRetries |-> n,
                           outcomes |-> outcomes]
    /\ retryPc = "attempt"
    /\ retryAttempts = <<>>
    /\ retryRet = [kind |-> "none", err |-> <<>>]

NextRetry == RetryAttempt \/ RetryBackoff \/ CancelDuringRetry

SpecRetry == InitRetry /\ [][NextRetry]_vars

(***************************************************************************)
(* Properties                                                              *)
(***************************************************************************)

\* The workers whose GetFileInfo call is in progress.
Fetching == {i \in Workers : wpc[i] = "fetch"}

\* The repository goroutines of a platform that are inside processRepository.
Executing(p) ==
    {r \in ReposOf(p) :
        rpc[r] \in {"process", "verbose", "verboseUnlock", "output", "report",
                    "unlock"}}

\* C1: during a GetMultipleFiles call with maxConcurrency = k >= 1, at most k
\* per-file fetches (GetFileInfo calls) are in progress at any moment, for
\* every number of paths and every interleaving of the workers.
C1_FetchesBounded ==
    maxConcurrency >= 1 => Cardinality(Fetching) <= maxConcurrency

\* C1 witness: the limit is reached while a further worker waits for a permit.
C1_Witness ==
    /\ maxConcurrency >= 1
    /\ Cardinality(Fetching) = maxConcurrency
    /\ \E i \in Workers : wpc[i] = "wait"

\* C2: within one platform at most max_repos_concurrency repository tasks (5
\* when the configured value is <= 0) are executing processRepository.
C2_RepoTasksBounded ==
    \A p \in Platforms :
        Cardinality(Executing(p)) <=
            (IF cliOptions.MaxReposConcurrency <= 0
             THEN 5 ELSE cliOptions.MaxReposConcurrency)

\* C2 witness: with a positive limit, a platform has as many tasks executing
\* as the limit allows while another of its tasks waits for a permit.
C2_Witness ==
    \E p \in Platforms :
        /\ cliOptions.MaxReposConcurrency >= 1
        /\ Cardinality(Executing(p)) = cliOptions.MaxReposConcurrency
        /\ \E r \in ReposOf(p) : rpc[r] = "wait"

\* The number of positions of a sequence that hold a path.
CountPath(seq, path) == Cardinality({i \in DOMAIN seq : seq[i] = path})

\* The paths of a sequence of FileInfo.
PathsOf(infos) == [i \in DOMAIN infos |-> infos[i].Path]

\* C3: for every backend the array GetMultipleFiles returns is positionally
\* aligned with the input: result[i].Path = paths[i] for every index i,
\* whatever order the fetches complete in.
C3_ResultsAligned ==
    callPc = "returned" =>
        /\ Len(ret.files) = Len(filePaths)
        /\ \A i \in DOMAIN filePaths : ret.files[i].Path = filePaths[i]

SetupFailed(p) == platformResult[p] \in {"tokenErr", "providerErr", "connErr"}

\* A repository has been processed to its end: its goroutine is over, one
\* outcome was reported, and its output was written exactly if the outcome
\* is a success.
Processed(r) ==
    /\ rpc[r] = "done"
    /\ Len(reports[r]) = 1
    /\ outputWritten[r] <=> reports[r] = <<"success">>

\* C5: if a platform's task fails at token resolution, provider construction
\* or the connection test, the repositories of every other platform are still
\* processed and ProcessRepositories still returns: the failed task ends
\* holding neither the console lock nor a permit and having started none of
\* its repositories, and at the return every repository of every platform
\* that passed its setup has been processed to its end.
C5_PlatformFailureIsolated ==
    /\ \A p \in Platforms :
          (SetupFailed(p) /\ ppc[p] = "done") =>
              /\ platformMu # PlatformId(p)
              /\ repoSemaphore[p] = 0
              /\ \A r \in ReposOf(p) : rpc[r] = "idle"
    /\ mainPc = "returned" =>
          \A p \in Platforms :
              platformResult[p] = "ok" => \A r \in ReposOf(p) : Processed(r)

\* C5 witness: the run has returned, one platform failed its setup and a
\* repository of another platform was processed with success.
C5_Witness ==
    /\ mainPc = "returned"
    /\ \E p, q \in Platforms :
          /\ SetupFailed(p)
          /\ platformResult[q] = "ok"
          /\ \E r \in ReposOf(q) :
                reports[r] = <<"success">> /\ outputWritten[r]

\* C6: if ProcessRepository fails for one repository, every other repository
\* of the platform is still processed: the run reaches, and then stays in, a
\* state where every repository whose task was started (a task never goes
\* back to idle) has run to its end, with one outcome reported and, for a
\* success, its output written.
C6_SiblingsProcessed ==
    <>[](\A r \in Repos : rpc[r] # "idle" => Processed(r))

\* C6 witness: ProcessRepository has failed for one repository and a sibling
\* of the same platform has been processed with its output written.
C6_Witness ==
    \E r, s \in Repos :
        /\ r # s
        /\ PlatformOf(r) = PlatformOf(s)
        /\ repoResult[s] = "processErr"
        /\ rpc[r] = "done"
        /\ reports[r] = <<"success">>
        /\ outputWritten[r]

\* Every goroutine the run started is over.
AllTasksFinished ==
    /\ \A p \in Platforms : ppc[p] \in {"idle", "done"}
    /\ \A r \in Repos : rpc[r] \in {"idle", "done"}

\* C7: a multi-repository run always completes: ProcessRepositories
\* eventually returns, and it returns only after every platform task and
\* every repository task it started has finished, for any mix of succeeding
\* and failing platforms and repositories.
C7_RunCompletes ==
    /\ <>(mainPc = "returned")
    /\ [](mainPc = "returned" => AllTasksFinished)

\* C7 witness: a run has returned after one of its repositories failed and
\* another succeeded.
C7_Witness ==
    /\ mainPc = "returned"
    /\ \E r, s \in Repos :
          reports[r] = <<"failure">> /\ reports[s] = <<"success">>

C9_CancelStopsWaiting ==
    [][ctxCancelled =>
          /\ \A i \in DOMAIN wpc :
                wpc[i] = "wait" => wpc'[i] # "fetch"
          /\ \A r \in DOMAIN rpc :
                rpc[r] = "wait" => rpc'[r] # "process"]_vars

\* The tasks that hold a permit: from the acquisition to the release.
FilePermitHolders == {i \in Workers : wpc[i] \in {"fetch", "release"}}
RepoPermitHolders(p) == Executing(p) \cup {r \in ReposOf(p) : rpc[r] = "release"}

\* C10: at both tiers a task works only while it holds a permit and gives
\* the permit back when it ends, whether it succeeded or failed: the permits
\* taken from a semaphore are exactly those of the tasks that are between
\* their acquisition and their end, so a finished task holds none.
C10_PermitsMatchTasks ==
    /\ semaphore = Cardinality(FilePermitHolders)
    /\ \A p \in Platforms :
          repoSemaphore[p] = Cardinality(RepoPermitHolders(p))

\* C10 witness: under a limit of one, a repository task that failed is over
\* and a sibling has acquired the permit it gave back.
C10_Witness ==
    /\ cliOptions.MaxReposConcurrency = 1
    /\ \E r, s \in Repos :
          /\ PlatformOf(r) = PlatformOf(s)
          /\ rpc[s] = "done"
          /\ reports[s] = <<"failure">>
          /\ rpc[r] = "process"
          /\ repoSemaphore[PlatformOf(r)] = 1

\* The FileInfo entries the bulk fetch handed to the post-fetch loop.
Fetched == ProviderGetMultipleFiles(FileEntries(procFiltered), procInput).files

\* The number of positions of seq that hold x.
Occurrences(seq, x) == Cardinality({i \in DOMAIN seq : seq[i] = x})

\* C11: ProcessRepository fails fatally, with an error and no result, only
\* if GetRepository or GetRepositoryTree failed; in every other case it
\* returns a ProcessingResult and no error.
C11_FatalOnlyForMetadataOrTree ==
    procPc = "returned" =>
        IF procInput.repoErr \/ procInput.treeErr
        THEN ~procRet.hasResult /\ procRet.err # "nil"
        ELSE procRet.hasResult /\ procRet.err = "nil"

\* The sum of the sizes of the entries of a FileInfo list.
SumSizes(infos) ==
    LET F[i \in 0..Len(infos)] ==
            IF i = 0 THEN 0 ELSE F[i - 1] + infos[i].Size
    IN  F[Len(infos)]

\* The size limit in force: max_file_size is set and parses.
HasSizeLimit(cfg) ==
    cfg.MaxFileSize # EmptySizeString /\ ParseSize(cfg.MaxFileSize).err = "nil"
SizeLimit(cfg) == ParseSize(cfg.MaxFileSize).size

\* A fetched file the size policy or the binary policy drops.
DroppedByPolicy(f, cfg) ==
    \/ HasSizeLimit(cfg) /\ f.Size > SizeLimit(cfg)
    \/ cfg.SkipBinary /\ f.IsBinary

\* The positions of the result's file list that hold files, not directories.
ResultFiles == {j \in DOMAIN procRet.result.Files : ~procRet.result.Files[j].IsDir}

\* C12 as stated: every fetched FileInfo that carries a fetch error has that
\* error exactly once in the result's Errors and is not in the file list.
C12_EveryFetchErrorRecorded ==
    (procPc = "returned" /\ procRet.hasResult) =>
        \A i \in DOMAIN Fetched :
            Fetched[i].Error # NoError =>
                /\ Occurrences(procRet.result.Errors, Fetched[i].Error) = 1
                /\ \A j \in DOMAIN procRet.result.Files :
                      procRet.result.Files[j].Path # Fetched[i].Path

\* C12 amended: the post-fetch policy is applied in order (size, binary,
\* error). A fetched FileInfo that carries a fetch error and is not dropped by
\* the size or binary policy has its error exactly once in Errors and is kept
\* out of the file list and the size total; one that the size or binary
\* policy drops is dropped silently; the files without error that no policy
\* drops are all in the file list, and Errors holds nothing else.
C12_FetchErrorRecordedUnlessDropped ==
    (procPc = "returned" /\ procRet.hasResult) =>
        /\ \A i \in DOMAIN Fetched :
              LET f == Fetched[i]
                  inFiles == \E j \in DOMAIN procRet.result.Files :
                                procRet.result.Files[j].Path = f.Path
              IN  /\ (f.Error # NoError /\ ~DroppedByPolicy(f, procInput.cfg)) =>
                        /\ Occurrences(procRet.result.Errors, f.Error) = 1
                        /\ ~inFiles
                  /\ (f.Error # NoError /\ DroppedByPolicy(f, procInput.cfg)) =>
                        /\ Occurrences(procRet.result.Errors, f.Error) = 0
                        /\ ~inFiles
                  /\ (f.Error = NoError /\ ~DroppedByPolicy(f, procInput.cfg)) =>
                        Occurrences(procRet.result.Files, f) = 1
        /\ Len(procRet.result.Errors) =
              Cardinality({i \in DOMAIN Fetched :
                  Fetched[i].Error # NoError
                      /\ ~DroppedByPolicy(Fetched[i], procInput.cfg)})
        /\ procRet.result.TotalSize = SumSizes(procRet.result.Files)

\* C12 witness: of three fetched files one failed; the result holds the two
\* others and one error.
C12_Witness ==
    /\ procPc = "returned"
    /\ procRet.hasResult
    /\ Len(Fetched) = 3
    /\ Cardinality(ResultFiles) = 2
    /\ Len(procRet.result.Errors) = 1

\* C13: with a valid max_file_size, a fetched file larger than the limit is
\* dropped silently: it is not in the result's file list, no entry of Errors
\* is about it, and the totals count the listed entries only.
C13_OversizeDroppedSilently ==
    (procPc = "returned" /\ procRet.hasResult /\ HasSizeLimit(procInput.cfg)) =>
        \A i \in DOMAIN Fetched :
            Fetched[i].Size > SizeLimit(procInput.cfg) =>
                /\ \A j \in DOMAIN procRet.result.Files :
                      procRet.result.Files[j].Path # Fetched[i].Path
                /\ \A k \in DOMAIN procRet.result.Errors :
                      procRet.result.Errors[k].path # Fetched[i].Path
                /\ procRet.result.TotalFiles = Len(procRet.result.Files)
                /\ procRet.result.TotalSize = SumSizes(procRet.result.Files)

\* C13 witness: a file over the limit was fetched, with a read error, along
\* with a file within the limit that the result lists.
C13_Witness ==
    /\ procPc = "returned"
    /\ procRet.hasResult
    /\ HasSizeLimit(procInput.cfg)
    /\ \E i \in DOMAIN Fetched :
          Fetched[i].Size > SizeLimit(procInput.cfg) /\ Fetched[i].Error # NoError
    /\ ResultFiles # {}

\* C14: TotalFiles is the number of fetched file entries that were neither
\* dropped nor errored and TotalSize the sum of their sizes; the re-injected
\* directory entries contribute to neither.
C14_TotalsCountFilesOnly ==
    (procPc = "returned" /\ procRet.hasResult) =>
        LET surviving ==
                SubSeqAt(Fetched,
                         {i \in DOMAIN Fetched :
                             Fetched[i].Error = NoError
                                 /\ ~DroppedByPolicy(Fetched[i], procInput.cfg)})
        IN  /\ procRet.result.TotalFiles = Len(surviving)
            /\ procRet.result.TotalSize = SumSizes(surviving)

\* C15: the filter retains every directory entry of the tree listing,
\* whatever the ignore and include-only patterns.
C15_DirectoriesRetained ==
    procPc = "filtered" =>
        \A i \in DOMAIN procInput.tree :
            procInput.tree[i].Type = "tree" =>
                \E j \in DOMAIN procFiltered : procFiltered[j] = procInput.tree[i]

\* C16: a GetMultipleFiles call that requests more than maxFiles paths fails
\* as a whole with the too-many-files error before any fetch begins: no
\* worker is started, no GetFileInfo call is made and no result array is
\* returned; a call with maxFiles paths or fewer is not rejected by this
\* check.
C16_TooManyFilesRejectedUpFront ==
    callPc \notin {"idle", "start"} =>
        IF Len(filePaths) > config.MaxFiles
        THEN /\ callPc = "rejected"
             /\ ret = [files |-> <<>>, err |-> "too many files"]
             /\ wpc = <<>>
             /\ semaphore = 0
             /\ results = <<>> /\ resultsChan = <<>> /\ files = <<>>
        ELSE ret.err # "too many files"

\* C16 witness: a call with one path more than maxFiles has been rejected.
C16_Witness ==
    /\ callPc = "rejected"
    /\ ret.err = "too many files"
    /\ Len(filePaths) = config.MaxFiles + 1

\* The location a path names, walked segment by segment from the base
\* directory (from the root when the path is rooted): ".." goes to the
\* parent, which for the root is the root itself.
Walk(start, segs) ==
    LET F[i \in 0..Len(segs)] ==
            IF i = 0 THEN start
            ELSE IF segs[i] = "." \/ segs[i] = "" THEN F[i - 1]
            ELSE IF segs[i] = ".."
            THEN IF Len(F[i - 1]) = 0 THEN <<>>
                 ELSE SubSeq(F[i - 1], 1, Len(F[i - 1]) - 1)
            ELSE Append(F[i - 1], segs[i])
    IN  F[Len(segs)]
ResolvedLocation(path) == Walk(IF path.abs THEN <<>> ELSE BasePath, path.segs)
StrictlyInsideBase(loc) ==
    Len(loc) > Len(BasePath) /\ SubSeq(loc, 1, Len(BasePath)) = BasePath

RECURSIVE ChildrenOrdered(_)
ChildrenOrdered(children) ==
    /\ \A i, j \in DOMAIN children :
          i < j => /\ children[i].IsDir \/ ~children[j].IsDir
                   /\ children[i].IsDir = children[j].IsDir
                         => NameLess(children[i].Name, children[j].Name)
    /\ \A i \in DOMAIN children : ChildrenOrdered(children[i].Children)

\* C18: in every forest BuildProjectTree returns, the children of every node,
\* the top level included, have all directories before all files and, within
\* one kind, ascending names.
C18_ChildrenSortedEverywhere ==
    \A c \in DOMAIN treePc :
        treePc[c] = "returned" => ChildrenOrdered(treeOut[c])

\* A returned forest whose top level has a directory ahead of a file with a
\* smaller name although the input listed the file first, and whose directory
\* holds two files that the input listed in descending order.
C18_Witness ==
    \E c \in DOMAIN treePc :
        /\ treePc[c] = "returned"
        /\ Len(treeInputs[c]) = 3
        /\ treeInputs[c][1].Path = <<"README.md">>
        /\ treeInputs[c][2].Path = <<"src", "main.go">>
        /\ treeInputs[c][3].Path = <<"src", "lib.go">>
        /\ Len(treeOut[c]) = 2
        /\ treeOut[c][1].Name = "src" /\ treeOut[c][1].IsDir
        /\ treeOut[c][2].Name = "README.md" /\ ~treeOut[c][2].IsDir
        /\ Len(treeOut[c][1].Children) = 2
        /\ treeOut[c][1].Children[1].Name = "lib.go"
        /\ treeOut[c][1].Children[2].Name = "main.go"

\* No two entries of the list have the same path.
DistinctPaths(list) ==
    \A i, j \in DOMAIN list : i # j => list[i].Path # list[j].Path

\* A forest without the sizes of its nodes.
RECURSIVE WithoutSizes(_)
WithoutSizes(children) ==
    [i \in DOMAIN children |->
        [Name     |-> children[i].Name,
         Path     |-> children[i].Path,
         IsDir    |-> children[i].IsDir,
         Children |-> WithoutSizes(children[i].Children)]]

BothReturned == \A c \in DOMAIN treePc : treePc[c] = "returned"

\* C19: for any entries, BuildProjectTree returns the same forest (nodes,
\* kind and size of each node, order of children) for the list in every
\* order and on a repeated call.
C19_SameForestForEveryOrder ==
    BothReturned => treeOut[1] = treeOut[2]

\* C19 (amended): the two forests have the same nodes, kinds and order of
\* children for the list in every order and on a repeated call, and the same
\* sizes as well when no two entries of the list have the same path.
C19_SameForestForDistinctPaths ==
    BothReturned =>
        /\ WithoutSizes(treeOut[1]) = WithoutSizes(treeOut[2])
        /\ DistinctPaths(treeInputs[1]) => treeOut[1] = treeOut[2]

\* Two calls on different orders of three entries with different paths have
\* returned the same forest of two levels.
C19_Witness ==
    /\ BothReturned
    /\ Len(treeInputs[1]) = 3
    /\ treeInputs[1] # treeInputs[2]
    /\ DistinctPaths(treeInputs[1])
    /\ \E i \in DOMAIN treeOut[1] : Len(treeOut[1][i].Children) > 0
    /\ treeOut[1] = treeOut[2]

\* A file whose content the file contents section is to show.
IsTextFile(file) == ~file.IsDir /\ ~file.IsBinary /\ ~file.HasError

\* The sections the document has for a path.
SectionsOf(path) ==
    {i \in DOMAIN genOut : genOut[i].kind = "file" /\ genOut[i].path = path}

HasBlock(kind) == \E i \in DOMAIN genOut : genOut[i].kind = kind

\* C20: when exactly one file of the list is larger than 5 MB and it is a text
\* file, the document has no error block, has the header and the tree, has
\* one section for that file with the too-large placeholder as its body, and
\* has the content of every other text file.
C20_OversizeFileShownAsPlaceholder ==
    LET fileInfos == genInput.FileContents
        over == {i \in DOMAIN fileInfos : fileInfos[i].Size > MaxFileSize}
    IN  (/\ genPc = "returned"
         /\ Cardinality(over) = 1
         /\ \A i \in over : IsTextFile(fileInfos[i]))
        => /\ ~HasBlock("error")
           /\ HasBlock("header")
           /\ HasBlock("project structure")
           /\ \A i \in DOMAIN fileInfos :
                 IsTextFile(fileInfos[i]) =>
                    /\ Cardinality(SectionsOf(fileInfos[i].Path)) = 1
                    /\ \A k \in SectionsOf(fileInfos[i].Path) :
                          genOut[k].body = IF i \in over THEN "too large"
                                           ELSE "content"

\* The sizes of the files whose content the document is to show, added up.
SumOfIncluded(fileInfos) ==
    LET F[i \in 0..Len(fileInfos)] ==
            IF i = 0 THEN 0
            ELSE F[i - 1] + IF IsTextFile(fileInfos[i])
                            THEN fileInfos[i].Size ELSE 0
    IN  F[Len(fileInfos)]

\* C21: when the sizes of the files whose content is to be shown add up to
\* more than 100 MB, the document GenerateLLMsFullText returns is one error
\* block and nothing else: no header, no tree, no file section.
C21_OverTotalAbortsWithOneErrorBlock ==
    LET fileInfos == genInput.FileContents
    IN  (genPc = "returned" /\ SumOfIncluded(fileInfos) > MaxTotalSize)
        => /\ Len(genOut) = 1
           /\ genOut[1].kind = "error"

\* A returned document that is the one error block for the total, for a list
\* in which no file is over the per-file cap and files come before the one
\* that took the total over the cap.
C21_Witness ==
    /\ genPc = "returned"
    /\ Len(genInput.FileContents) > 2
    /\ \A i \in DOMAIN genInput.FileContents :
          /\ IsTextFile(genInput.FileContents[i])
          /\ genInput.FileContents[i].Size <= MaxFileSize
    /\ SumOfIncluded(genInput.FileContents) > MaxTotalSize
    /\ genOut = << [kind |-> "error", msg |-> "total file size exceeds limit",
                    path |-> <<>>] >>

C23_EveryWriteUnderPlatformMu ==
    [][\A t \in DOMAIN taskPc :
          written'[t] # written[t] => taskMu = t /\ taskMu' = t]_vars

\* The node of a forest at a path: the nodes along the path exist in every
\* forest built from an entry with that path.
RECURSIVE NodeAt(_, _, _)
NodeAt(children, path, i) ==
    LET k == CHOOSE j \in DOMAIN children : children[j].Name = path[i]
    IN  IF i = Len(path) THEN children[k]
        ELSE NodeAt(children[k].Children, path, i + 1)

\* C24: when two entries of the list have the same path, the node at that
\* path has the kind and the size of the one that comes later in the list,
\* whichever kinds the two entries have.
C24_LaterEntryWins ==
    \A c \in DOMAIN treePc :
        treePc[c] = "returned" =>
            \A i, j \in DOMAIN treeInputs[c] :
                (/\ i < j
                 /\ treeInputs[c][i].Path = treeInputs[c][j].Path
                 /\ \A k \in DOMAIN treeInputs[c] :
                       k > j => treeInputs[c][k].Path # treeInputs[c][j].Path)
                => LET node == NodeAt(treeOut[c], treeInputs[c][j].Path, 1)
                   IN  /\ node.IsDir = treeInputs[c][j].IsDir
                       /\ node.Size = treeInputs[c][j].Size

\* C25: WithRetry calls the operation again only after an attempt failed with
\* an error its client classifies as a rate-limit or a temporary network
\* error; any other error is returned by the attempt that produced it,
\* success returns nil at once, and the operation is called at most
\* maxRetries + 1 times.
C25_RetryOnlyOnRetryableErrors ==
    LET n == Len(retryAttempts)
        client == retryInput.client
        Classified(e) == IsRateLimitError(client, e) \/ IsTemporaryError(e)
    IN  retryPc # "idle" =>
          /\ n <= retryInput.maxRetries + 1
          /\ \A i \in 1..(n - 1) : Classified(retryAttempts[i])
          /\ \A i \in 1..n :
                ~Classified(retryAttempts[i]) =>
                   /\ i = n
                   /\ retryPc = "returned"
                   /\ retryRet = IF retryAttempts[i] = <<>>
                                 THEN [kind |-> "nil", err |-> <<>>]
                                 ELSE [kind |-> "error",
                                       err |-> retryAttempts[i]]

\* A call that made a second attempt after a "timeout" error and returned
\* the "404" error of the second attempt although a third was allowed.
C25_Witness ==
    /\ retryPc = "returned"
    /\ retryInput.maxRetries = 2
    /\ retryAttempts = << <<"t", "i", "m", "e", "o", "u", "t">>,
                          <<"4", "0", "4">> >>
    /\ retryRet = [kind |-> "error", err |-> <<"4", "0", "4">>]

C29_LocalCallsReadOwnFolder ==
    taskInput.platform = "local" =>
       \A c \in providerCalls :
          c.task > 0 => c.target = taskInput.repos[c.task]

\* C28: on every backend a call of GetMultipleFiles with a non-positive
\* maxConcurrency and a non-empty path list works with a positive limit and
\* cannot get stuck: while it runs, a worker or the collecting caller has a
\* step to take.
C28_NonPositiveLimitFallsBack ==
    LET Progress == \/ \E i \in Workers : AcquireFilePermit(i)
                    \/ \E i \in Workers : FetchFile(i)
                    \/ \E i \in Workers : ReleaseFilePermit(i)
                    \/ CollectResult
                    \/ ReturnCollected
                    \/ ReturnResults
    IN  (maxConcurrency <= 0 /\ filePaths # <<>> /\ callPc = "running") =>
           /\ SemaphoreCap(backend, maxConcurrency) > 0
           /\ ENABLED Progress

\* C30: in the GitHub and GitLab GetMultipleFiles every worker sends exactly
\* one result, a worker about to send finds room in the results channel and
\* the channel open, and the channel is closed only after len(paths) results
\* were received.
C30_OneSendEachNeverOnClosedChannel ==
    LET Sent == {i \in Workers : wpc[i] \in {"release", "done"}}
    IN  backend \in RemoteBackends =>
          /\ Len(files) + Len(resultsChan) = Cardinality(Sent)
          /\ \A i \in Workers :
                wpc[i] = "fetch" =>
                   /\ Len(resultsChan) < Len(filePaths)
                   /\ ~resultsClosed
          /\ resultsClosed =>
                /\ Len(files) = Len(filePaths)
                /\ Sent = Workers

\* A remote call over three paths with one permit that has returned: the
\* channel is closed and the last worker has not released its permit yet.
C30_Witness ==
    /\ backend \in RemoteBackends
    /\ Len(filePaths) = 3
    /\ maxConcurrency = 1
    /\ resultsClosed
    /\ Len(files) = 3
    /\ \E i \in Workers : wpc[i] = "release"


====
